---- MODULE Spec2Model ----
(***************************************************************************)
(* osfs: the in-memory, bitmap-backed filesystem of lab4.                  *)
(*                                                                         *)
(* The advanced ("bonus") variant is modelled: lab4_bonus/{inode,dir,      *)
(* file}.c with lab4_bonus/osfs.h, mounted by osfs_fill_super of           *)
(* Lab4_Template_Update/super.c (the bonus directory has no super.c).      *)
(*                                                                         *)
(* The data-block area is one flat byte array, as in the C code            *)
(* (sb_info->data_blocks + phys * BLOCK_SIZE + offset).  It is kept        *)
(* sparsely: data_blocks is a function from the addresses that hold a      *)
(* non-zero byte to that byte (1..255); every other address reads 0.       *)
(* Index blocks hold little-endian uint32_t words, directory blocks hold   *)
(* struct osfs_dir_entry records, file blocks hold user bytes: all three   *)
(* are views of the same bytes.                                            *)
(***************************************************************************)
EXTENDS Integers, Sequences, FiniteSets, TLC

\* ------------------------------------------------------------ constants

\* osfs.h
INODE_COUNT == 20
DATA_BLOCK_COUNT == 20
MAX_FILENAME_LEN == 255
OSFS_N_DIRECT == 12
ROOT_INODE == 1
\* BLOCK_SIZE is not defined by the repository (osfs.h:14 is commented
\* out): it is the one <linux/fs.h> defines, 1 << BLOCK_SIZE_BITS.
BLOCK_SIZE == 1024
\* sizeof(uint32_t)
SIZEOF_U32 == 4
\* struct osfs_dir_entry { char filename[255]; uint32_t inode_no; }:
\* inode_no is 4-aligned, at offset 256; the record is 260 bytes.
INODE_NO_OFFSET == ((MAX_FILENAME_LEN + SIZEOF_U32 - 1) \div SIZEOF_U32) * SIZEOF_U32
SIZEOF_DIR_ENTRY == INODE_NO_OFFSET + SIZEOF_U32
MAX_DIR_ENTRIES == BLOCK_SIZE \div SIZEOF_DIR_ENTRY
OSFS_ADDR_PER_BLOCK == BLOCK_SIZE \div SIZEOF_U32
OSFS_N_BLOCKS == OSFS_N_DIRECT + 1 + 1

\* uint32_t fields are kept as the 32-bit two's-complement integer with the
\* same bits (TLC's integers are 32-bit): 0 .. 2^31-1 are themselves and
\* 0xFFFFFFFF, what 0 - 1 wraps to, is -1.
INT32_MAX == 2147483647
U32Dec(x) == IF x = -INT32_MAX - 1 THEN INT32_MAX ELSE x - 1
U32Inc(x) == IF x = INT32_MAX THEN -INT32_MAX - 1 ELSE x + 1

\* errno values, returned negated
ENOENT == 2
EIO == 5
EFAULT == 14
EEXIST == 17
EINVAL == 22
EFBIG == 27
ENOSPC == 28
ENAMETOOLONG == 36

\* inode types (the S_IFMT part of i_mode)
S_IFREG == 32768
S_IFDIR == 16384
S_IFLNK == 40960

Min(a, b) == IF a < b THEN a ELSE b

\* The least element of a non-empty set of integers.
SetMin(S) == CHOOSE x \in S : \A y \in S : x <= y

\* ------------------------------------------------------------ memory

\* One byte of the data area.
MemByte(mem, a) == IF a \in DOMAIN mem THEN mem[a] ELSE 0

\* Store n bytes at lo..lo+n-1: nz gives the non-zero ones (by address),
\* every other byte of the range becomes 0.
MemStore(mem, lo, n, nz) ==
    nz @@ [a \in {x \in DOMAIN mem : x < lo \/ x >= lo + n} |-> mem[a]]

\* memset(p, 0, n)
MemZero(mem, lo, n) == MemStore(mem, lo, n, << >>)

\* A little-endian uint32_t at address a.
MemWord(mem, a) ==
    LET b3 == MemByte(mem, a + 3)
    IN  MemByte(mem, a) + 256 * MemByte(mem, a + 1) + 65536 * MemByte(mem, a + 2)
            + 16777216 * (IF b3 >= 128 THEN b3 - 256 ELSE b3)

WordBytes(a, v) ==
    LET b == [k \in 0..3 |-> (v \div (256 ^ k)) % 256]
    IN  [x \in {a + k : k \in {j \in 0..3 : b[j] # 0}} |-> b[x - a]]

MemSetWord(mem, a, v) == MemStore(mem, a, SIZEOF_U32, WordBytes(a, v))

\* Address of physical block b: sb_info->data_blocks + b * BLOCK_SIZE.
BlockAddr(b) == b * BLOCK_SIZE

\* A power of two (times n) of bytes from address a among which one is 0.
RECURSIVE StrSpan(_, _, _)
StrSpan(mem, a, n) ==
    IF \E k \in 0..(n - 1) : (a + k) \notin DOMAIN mem THEN n ELSE StrSpan(mem, a, 2 * n)

\* strlen(p): the number of non-zero bytes from address a up to the first 0.
StrLen(mem, a) ==
    SetMin({k \in 0..(StrSpan(mem, a, 1) - 1) : (a + k) \notin DOMAIN mem})

\* strncmp(p, name, n) == 0, for a name without 0 bytes.
StrNEq(mem, a, name, n) ==
    \A k \in 1..n : k <= Len(name) /\ MemByte(mem, a + k - 1) = name[k]

\* ------------------------------------------------------------ state

VARIABLES
    inode_bitmap,    \* sb_info->inode_bitmap: the set of set bits
    block_bitmap,    \* sb_info->block_bitmap: the set of set bits
    nr_free_inodes,  \* sb_info->nr_free_inodes (uint32_t)
    nr_free_blocks,  \* sb_info->nr_free_blocks (uint32_t)
    inode_table,     \* sb_info->inode_table: ino -> struct osfs_inode
    data_blocks,     \* sb_info->data_blocks: the sparse byte array
    created,         \* history: <<name, ino>> of the creates that returned 0
    last,            \* the last call: its arguments, the state before, its result
    nops,            \* calls made so far
    written,         \* history: ino -> the ranges <<from, to>> written since its blocks were freed
    threads,         \* the callers inside osfs_alloc_data_block: their position and locals
    sem_sender,      \* lab1: the value of the semaphore "/sem_sender"
    sem_receiver,    \* lab1: the value of the semaphore "/sem_receiver"
    mailbox,         \* lab1: flag, the message queue MSG_KEY and the segment SHM_KEY
    sender,          \* lab1: sender.c's main: position, file position, message, history
    receiver,        \* lab1: receiver.c's main: position, message, history
    input_file       \* lab1: the bytes of the sender's input file

vars == <<inode_bitmap, block_bitmap, nr_free_inodes, nr_free_blocks,
          inode_table, data_blocks, created, last, nops, written, threads,
          sem_sender, sem_receiver, mailbox, sender, receiver, input_file>>

\* The variables of lab4's filesystem, and those of lab1's two processes.
osfs == <<inode_bitmap, block_bitmap, nr_free_inodes, nr_free_blocks,
          inode_table, data_blocks, created, last, nops, written, threads>>
lab1 == <<sem_sender, sem_receiver, mailbox, sender, receiver, input_file>>

\* The filesystem as one value, for the operators that model the C functions.
FS == [inode_bitmap |-> inode_bitmap, block_bitmap |-> block_bitmap,
       nr_free_inodes |-> nr_free_inodes, nr_free_blocks |-> nr_free_blocks,
       inode_table |-> inode_table, data_blocks |-> data_blocks]

SetFS(fs) ==
    /\ inode_bitmap' = fs.inode_bitmap
    /\ block_bitmap' = fs.block_bitmap
    /\ nr_free_inodes' = fs.nr_free_inodes
    /\ nr_free_blocks' = fs.nr_free_blocks
    /\ inode_table' = fs.inode_table
    /\ data_blocks' = fs.data_blocks

\* memset(osfs_inode, 0, sizeof(*osfs_inode))
ZeroInode == [i_ino |-> 0, i_size |-> 0, i_blocks |-> 0, i_mode |-> 0,
              i_links_count |-> 0, i_block |-> [k \in 0..(OSFS_N_BLOCKS - 1) |-> 0]]

\* ------------------------------------------------------------ inode.c

\* The scan "for (i = lo; i < hi; i++) if (!test_bit(i, bitmap))": the first
\* clear bit of lo..hi-1, or -1 when the loop runs out.
FirstOrNone(clear) == IF clear = {} THEN -1 ELSE SetMin(clear)

\* Seeded fault: the scan takes the last clear bit, not the first.
FirstClearBitFromTop(bitmap, lo, hi) ==
    IF {i \in lo..(hi - 1) : i \notin bitmap} = {} THEN -1
    ELSE CHOOSE i \in {j \in lo..(hi - 1) : j \notin bitmap} :
             \A j \in lo..(hi - 1) : j \notin bitmap => j <= i

\* The first clear bit of bitmap among lo..hi-1, or -1.
FirstClearBit(bitmap, lo, hi) == FirstOrNone({i \in lo..(hi - 1) : i \notin bitmap})

\* osfs_get_osfs_inode: NULL (FALSE here) for inode 0 and out-of-range numbers.
osfs_get_osfs_inode_ok(ino) == ~(ino = 0 \/ ino >= INODE_COUNT)

\* The body of osfs_get_free_inode's loop at the first clear bit ino:
\* set_bit, nr_free_inodes--, return ino; -ENOSPC after the loop.
TakeInode(fs, ino) ==
    IF ino = -1
    THEN [fs |-> fs, ret |-> -ENOSPC]
    ELSE [fs |-> [fs EXCEPT !.inode_bitmap = @ \cup {ino},
                            !.nr_free_inodes = U32Dec(@)],
          ret |-> ino]

\* osfs_get_free_inode: [fs, ret]; ret is the inode number or -ENOSPC.
osfs_get_free_inode(fs) == TakeInode(fs, FirstClearBit(fs.inode_bitmap, 1, INODE_COUNT))

\* Seeded fault: nr_free_blocks is counted down before the scan, found or not.
TakeBlockCountFirst(fs, i) ==
    IF i = -1
    THEN [fs |-> [fs EXCEPT !.nr_free_blocks = U32Dec(@)], ret |-> -ENOSPC, block_no |-> 0]
    ELSE [fs |-> [fs EXCEPT !.block_bitmap = @ \cup {i},
                            !.nr_free_blocks = U32Dec(@)],
          ret |-> 0, block_no |-> i]

\* The body of osfs_alloc_data_block's loop at the first clear bit i.
TakeBlock(fs, i) ==
    IF i = -1
    THEN [fs |-> fs, ret |-> -ENOSPC, block_no |-> 0]
    ELSE [fs |-> [fs EXCEPT !.block_bitmap = @ \cup {i},
                            !.nr_free_blocks = U32Dec(@)],
          ret |-> 0, block_no |-> i]

\* osfs_alloc_data_block: [fs, ret, block_no]; *block_no is written only on
\* success (the caller's slot keeps its value otherwise).
osfs_alloc_data_block(fs) == TakeBlock(fs, FirstClearBit(fs.block_bitmap, 0, DATA_BLOCK_COUNT))

\* Seeded fault: the bit is cleared and the counter is left alone.
osfs_free_data_block_no_count(fs, block_no) ==
    [fs EXCEPT !.block_bitmap = @ \ {block_no}]

\* osfs_free_data_block: no check that the bit was set.
osfs_free_data_block(fs, block_no) ==
    [fs EXCEPT !.block_bitmap = @ \ {block_no},
               !.nr_free_blocks = U32Inc(@)]

\* The result of osfs_get_block.
GetBlockResult(fs, ret, phys_block) == [fs |-> fs, ret |-> ret, phys_block |-> phys_block]

\* Seeded fault: the block is counted and the slot is left as it was.
StoreInodeSlotCountOnly(a, ino, k) ==
    IF a.ret # 0
    THEN [fs |-> a.fs, ret |-> a.ret]
    ELSE [fs |-> [a.fs EXCEPT !.inode_table[ino].i_blocks = U32Inc(@)], ret |-> 0]

\* After osfs_alloc_data_block(sb_info, &osfs_inode->i_block[k]) returned a:
\* on success the slot holds the block and i_blocks++.  [fs, ret]
StoreInodeSlot(a, ino, k) ==
    IF a.ret # 0
    THEN [fs |-> a.fs, ret |-> a.ret]
    ELSE [fs |-> [a.fs EXCEPT !.inode_table[ino].i_block[k] = a.block_no,
                              !.inode_table[ino].i_blocks = U32Inc(@)],
          ret |-> 0]

AllocInodeSlot(fs, ino, k) == StoreInodeSlot(osfs_alloc_data_block(fs), ino, k)

\* Seeded fault: the block goes into the index block and is not counted.
StoreIndexSlotUncounted(a, ino, base, idx) ==
    IF a.ret # 0
    THEN [fs |-> a.fs, ret |-> a.ret]
    ELSE [fs |-> [a.fs EXCEPT
                    !.data_blocks = MemSetWord(@, base + SIZEOF_U32 * idx, a.block_no)],
          ret |-> 0]

\* The same for a slot that is word idx of the index block at address base.
StoreIndexSlot(a, ino, base, idx) ==
    IF a.ret # 0
    THEN [fs |-> a.fs, ret |-> a.ret]
    ELSE [fs |-> [a.fs EXCEPT
                    !.data_blocks = MemSetWord(@, base + SIZEOF_U32 * idx, a.block_no),
                    !.inode_table[ino].i_blocks = U32Inc(@)],
          ret |-> 0]

AllocIndexSlot(fs, ino, base, idx) == StoreIndexSlot(osfs_alloc_data_block(fs), ino, base, idx)

\* Seeded fault: a new index block keeps what the block held.
ZeroIndexBlockNot(fs, b) == fs

\* memset(index block, 0, BLOCK_SIZE) of index block b.
ZeroIndexBlock(fs, b) ==
    [fs EXCEPT !.data_blocks = MemZero(@, BlockAddr(b), BLOCK_SIZE)]

\* "*phys_block = osfs_inode->i_block[block]; return 0", or the allocation's
\* error, after the allocation a of a direct slot.
DirectAfterAlloc(a, ino, block) ==
    IF a.ret # 0 THEN GetBlockResult(a.fs, a.ret, 0)
    ELSE GetBlockResult(a.fs, 0, a.fs.inode_table[ino].i_block[block])

\* Seeded fault: with create set a direct slot gets a new block even when it
\* has one.
GetBlockDirectAnew(fs, ino, block, create) ==
    IF create
    THEN DirectAfterAlloc(AllocInodeSlot(fs, ino, block), ino, block)
    ELSE GetBlockResult(fs, 0, fs.inode_table[ino].i_block[block])

\* Direct range: i_block[block].
GetBlockDirect(fs, ino, block, create) ==
    IF fs.inode_table[ino].i_block[block] = 0 /\ create
    THEN DirectAfterAlloc(AllocInodeSlot(fs, ino, block), ino, block)
    ELSE GetBlockResult(fs, 0, fs.inode_table[ino].i_block[block])

LeafAfterAlloc(a, base, idx) ==
    IF a.ret # 0 THEN GetBlockResult(a.fs, a.ret, 0)
    ELSE GetBlockResult(a.fs, 0, MemWord(a.fs.data_blocks, base + SIZEOF_U32 * idx))

\* The last level: word idx of the index block at address base names the
\* data block.
GetBlockLeaf(fs, ino, base, idx, create) ==
    IF MemWord(fs.data_blocks, base + SIZEOF_U32 * idx) = 0 /\ create
    THEN LeafAfterAlloc(AllocIndexSlot(fs, ino, base, idx), base, idx)
    ELSE GetBlockResult(fs, 0, MemWord(fs.data_blocks, base + SIZEOF_U32 * idx))

\* The leaf under the index block named by slot k of the inode.
LeafUnderInodeSlot(fs, ino, k, idx, create) ==
    GetBlockLeaf(fs, ino, BlockAddr(fs.inode_table[ino].i_block[k]), idx, create)

\* After the allocation a of the index block of slot k: its memset, then on.
IndirectAfterAlloc(a, ino, block, create) ==
    IF a.ret # 0 THEN GetBlockResult(a.fs, a.ret, 0)
    ELSE LeafUnderInodeSlot(ZeroIndexBlock(a.fs, a.fs.inode_table[ino].i_block[OSFS_N_DIRECT]),
                            ino, OSFS_N_DIRECT, block, create)

\* Single-indirect range: i_block[OSFS_N_DIRECT] names the index block.
GetBlockIndirect(fs, ino, block, create) ==
    IF fs.inode_table[ino].i_block[OSFS_N_DIRECT] = 0
    THEN IF ~create THEN GetBlockResult(fs, -ENOENT, 0)
         ELSE IndirectAfterAlloc(AllocInodeSlot(fs, ino, OSFS_N_DIRECT), ino, block, create)
    ELSE LeafUnderInodeSlot(fs, ino, OSFS_N_DIRECT, block, create)

\* The leaf under the second-level index block named by word idx1 of the
\* first-level block at base1.
LeafUnderIndexSlot(fs, ino, base1, idx1, idx2, create) ==
    GetBlockLeaf(fs, ino, BlockAddr(MemWord(fs.data_blocks, base1 + SIZEOF_U32 * idx1)),
                 idx2, create)

\* After the allocation a of a second-level index block: its memset, then on.
SecondLevelAfterAlloc(a, ino, base1, idx1, idx2, create) ==
    IF a.ret # 0 THEN GetBlockResult(a.fs, a.ret, 0)
    ELSE LeafUnderIndexSlot(
             ZeroIndexBlock(a.fs, MemWord(a.fs.data_blocks, base1 + SIZEOF_U32 * idx1)),
             ino, base1, idx1, idx2, create)

\* 3.2 and 3.3: below the first-level index block at base1.
GetBlockSecondLevel(fs, ino, base1, idx1, idx2, create) ==
    IF MemWord(fs.data_blocks, base1 + SIZEOF_U32 * idx1) = 0
    THEN IF ~create THEN GetBlockResult(fs, -ENOENT, 0)
         ELSE SecondLevelAfterAlloc(AllocIndexSlot(fs, ino, base1, idx1),
                                    ino, base1, idx1, idx2, create)
    ELSE LeafUnderIndexSlot(fs, ino, base1, idx1, idx2, create)

\* Seeded fault: the outer index computed as the inner one is.
DIndirectIdx1Modulo(block) == block % OSFS_ADDR_PER_BLOCK

\* dindirect_idx1 = block / OSFS_ADDR_PER_BLOCK
DIndirectIdx1(block) == block \div OSFS_ADDR_PER_BLOCK

\* dindirect_idx2 = block % OSFS_ADDR_PER_BLOCK
DIndirectIdx2(block) == block % OSFS_ADDR_PER_BLOCK

\* Below the first-level index block named by i_block[OSFS_N_DIRECT + 1].
UnderFirstLevel(fs, ino, block, create) ==
    GetBlockSecondLevel(fs, ino, BlockAddr(fs.inode_table[ino].i_block[OSFS_N_DIRECT + 1]),
                        DIndirectIdx1(block), DIndirectIdx2(block), create)

\* After the allocation a of the first-level index block: its memset, then on.
FirstLevelAfterAlloc(a, ino, block, create) ==
    IF a.ret # 0 THEN GetBlockResult(a.fs, a.ret, 0)
    ELSE UnderFirstLevel(
             ZeroIndexBlock(a.fs, a.fs.inode_table[ino].i_block[OSFS_N_DIRECT + 1]),
             ino, block, create)

\* Double-indirect range: i_block[OSFS_N_DIRECT + 1] names the first-level
\* index block, whose word idx1 names the second-level one.
GetBlockDIndirect(fs, ino, block, create) ==
    IF fs.inode_table[ino].i_block[OSFS_N_DIRECT + 1] = 0
    THEN IF ~create THEN GetBlockResult(fs, -ENOENT, 0)
         ELSE FirstLevelAfterAlloc(AllocInodeSlot(fs, ino, OSFS_N_DIRECT + 1), ino, block, create)
    ELSE UnderFirstLevel(fs, ino, block, create)

\* Seeded fault: the double-indirect range has no upper limit.
osfs_get_block_no_limit(fs, ino, block, create) ==
    IF block < OSFS_N_DIRECT
    THEN GetBlockDirect(fs, ino, block, create)
    ELSE IF block - OSFS_N_DIRECT < OSFS_ADDR_PER_BLOCK
    THEN GetBlockIndirect(fs, ino, block - OSFS_N_DIRECT, create)
    ELSE GetBlockDIndirect(fs, ino, block - OSFS_N_DIRECT - OSFS_ADDR_PER_BLOCK, create)

\* Seeded fault: the direct range taken one slot too far ("<=" for "<").
osfs_get_block_direct_too_far(fs, ino, block, create) ==
    IF block <= OSFS_N_DIRECT
    THEN GetBlockDirect(fs, ino, block, create)
    ELSE IF block - OSFS_N_DIRECT < OSFS_ADDR_PER_BLOCK
    THEN GetBlockIndirect(fs, ino, block - OSFS_N_DIRECT, create)
    ELSE IF block - OSFS_N_DIRECT - OSFS_ADDR_PER_BLOCK < OSFS_ADDR_PER_BLOCK * OSFS_ADDR_PER_BLOCK
    THEN GetBlockDIndirect(fs, ino, block - OSFS_N_DIRECT - OSFS_ADDR_PER_BLOCK, create)
    ELSE GetBlockResult(fs, -EFBIG, 0)

\* osfs_get_block(inode, block, &phys_block, create): [fs, ret, phys_block].
osfs_get_block(fs, ino, block, create) ==
    IF block < OSFS_N_DIRECT
    THEN GetBlockDirect(fs, ino, block, create)
    ELSE IF block - OSFS_N_DIRECT < OSFS_ADDR_PER_BLOCK
    THEN GetBlockIndirect(fs, ino, block - OSFS_N_DIRECT, create)
    ELSE IF block - OSFS_N_DIRECT - OSFS_ADDR_PER_BLOCK < OSFS_ADDR_PER_BLOCK * OSFS_ADDR_PER_BLOCK
    THEN GetBlockDIndirect(fs, ino, block - OSFS_N_DIRECT - OSFS_ADDR_PER_BLOCK, create)
    ELSE GetBlockResult(fs, -EFBIG, 0)

\* The non-zero words of the index block at address base, as word indexes.
IndexEntries(mem, base) ==
    {(a - base) \div SIZEOF_U32 : a \in {x \in DOMAIN mem : x >= base /\ x < base + BLOCK_SIZE}}

\* "for (i ...) if (indirect_block[i] != 0) osfs_free_data_block(indirect_block[i])"
\* over the word indexes todo of the index block at address base.
RECURSIVE FreeIndexEntries(_, _, _)
FreeIndexEntryAt(fs, base, todo, i) ==
    FreeIndexEntries(osfs_free_data_block(fs, MemWord(fs.data_blocks, base + SIZEOF_U32 * i)),
                     base, todo \ {i})

FreeIndexEntries(fs, base, todo) ==
    IF todo = {} THEN fs ELSE FreeIndexEntryAt(fs, base, todo, SetMin(todo))

\* Every data block the index block b names.
FreeIndexBlockEntries(fs, b) ==
    FreeIndexEntries(fs, BlockAddr(b), IndexEntries(fs.data_blocks, BlockAddr(b)))

\* 1. the direct blocks, from slot i on
RECURSIVE FreeDirect(_, _, _)
FreeDirect(fs, ino, i) ==
    IF i >= OSFS_N_DIRECT THEN fs
    ELSE IF fs.inode_table[ino].i_block[i] # 0
    THEN FreeDirect([osfs_free_data_block(fs, fs.inode_table[ino].i_block[i])
                        EXCEPT !.inode_table[ino].i_block[i] = 0], ino, i + 1)
    ELSE FreeDirect(fs, ino, i + 1)

\* Seeded fault: the index block is freed and its slot keeps naming it.
FreeSlotBlockKeepSlot(fs, ino, k, b) == osfs_free_data_block(fs, b)

\* An index block b named by slot k of the inode: after what lies under it
\* was freed (fs), the block itself, and the slot is zeroed.
FreeSlotBlock(fs, ino, k, b) ==
    [osfs_free_data_block(fs, b) EXCEPT !.inode_table[ino].i_block[k] = 0]

\* 2. the single-indirect index block and what it names
FreeIndirect(fs, ino) ==
    IF fs.inode_table[ino].i_block[OSFS_N_DIRECT] = 0 THEN fs
    ELSE FreeSlotBlock(FreeIndexBlockEntries(fs, fs.inode_table[ino].i_block[OSFS_N_DIRECT]),
                       ino, OSFS_N_DIRECT, fs.inode_table[ino].i_block[OSFS_N_DIRECT])

\* 3. the second-level index blocks named by the words todo of the first-level
\* block at address base1: each one's data blocks, then the block itself
RECURSIVE FreeSecondLevel(_, _, _)
FreeSecondLevelAt(fs, base1, todo, i, b2) ==
    FreeSecondLevel(osfs_free_data_block(FreeIndexBlockEntries(fs, b2), b2), base1, todo \ {i})

FreeSecondLevelNext(fs, base1, todo, i) ==
    FreeSecondLevelAt(fs, base1, todo, i, MemWord(fs.data_blocks, base1 + SIZEOF_U32 * i))

FreeSecondLevel(fs, base1, todo) ==
    IF todo = {} THEN fs ELSE FreeSecondLevelNext(fs, base1, todo, SetMin(todo))

FreeFirstLevelEntries(fs, b) ==
    FreeSecondLevel(fs, BlockAddr(b), IndexEntries(fs.data_blocks, BlockAddr(b)))

FreeDIndirect(fs, ino) ==
    IF fs.inode_table[ino].i_block[OSFS_N_DIRECT + 1] = 0 THEN fs
    ELSE FreeSlotBlock(FreeFirstLevelEntries(fs, fs.inode_table[ino].i_block[OSFS_N_DIRECT + 1]),
                       ino, OSFS_N_DIRECT + 1, fs.inode_table[ino].i_block[OSFS_N_DIRECT + 1])

\* osfs_free_inode_blocks(inode)
osfs_free_inode_blocks(fs, ino) ==
    [FreeDIndirect(FreeIndirect(FreeDirect(fs, ino, 0), ino), ino)
        EXCEPT !.inode_table[ino].i_blocks = 0]

\* ------------------------------------------------------------ file.c

\* A user buffer: len bytes, nz the non-zero ones by position 0..len-1.
Buffer(len, nz) == [len |-> len, nz |-> nz]

\* sector_t block = *ppos / BLOCK_SIZE
LogicalBlock(ppos) == ppos \div BLOCK_SIZE

\* offset = *ppos % BLOCK_SIZE
BlockOffset(ppos) == ppos % BLOCK_SIZE

\* min_t(size_t, len, BLOCK_SIZE - offset)
Chunk(len, offset) == Min(len, BLOCK_SIZE - offset)

\* to_read, to_write: the part of len that lies in the block of ppos
ChunkAt(ppos, len) == Chunk(len, BlockOffset(ppos))

\* Seeded fault: copy_to_user(buf, ...), every chunk at the start of buf.
CopyOutAtStart(mem, addr, to_read, bytes_read) ==
    [p \in {a - addr : a \in {x \in DOMAIN mem : x >= addr /\ x < addr + to_read}}
        |-> mem[addr + p]]

\* copy_to_user(buf + bytes_read, data_block, to_read): the bytes added to buf
CopyOut(mem, addr, to_read, bytes_read) ==
    [p \in {bytes_read + (a - addr) : a \in {x \in DOMAIN mem : x >= addr /\ x < addr + to_read}}
        |-> mem[addr + (p - bytes_read)]]

\* copy_from_user(data_block, buf + bytes_written, to_write): the memory after
CopyIn(mem, addr, to_write, buf, bytes_written) ==
    MemStore(mem, addr, to_write,
             [a \in {addr + (p - bytes_written) :
                        p \in {q \in DOMAIN buf.nz : q >= bytes_written /\ q < bytes_written + to_write}}
                 |-> buf.nz[bytes_written + (a - addr)]])

\* out with the bytes got added
Merge(out, got) == got @@ out

\* What one round of osfs_read's loop puts in the user buffer, g being
\* what osfs_get_block(inode, block, &phys_block, 0) returned.
ReadChunk(g, ppos, to_read, bytes_read) ==
    IF g.ret # 0 \/ g.phys_block = 0
    THEN << >>   \* clear_user
    ELSE CopyOut(g.fs.data_blocks, BlockAddr(g.phys_block) + BlockOffset(ppos),
                 to_read, bytes_read)

\* The loop of osfs_read.  out holds the bytes stored in the user buffer so far.
RECURSIVE ReadLoop(_, _, _, _, _, _)
ReadStep(g, ino, ppos, len, to_read, bytes_read, out) ==
    ReadLoop(g.fs, ino, ppos + to_read, len - to_read, bytes_read + to_read,
             Merge(out, ReadChunk(g, ppos, to_read, bytes_read)))

\* Seeded fault: the read resolves its blocks with create set.
ReadLoopCreating(fs, ino, ppos, len, bytes_read, out) ==
    IF len <= 0
    THEN [fs |-> fs, ret |-> bytes_read, ppos |-> ppos, buf |-> Buffer(bytes_read, out)]
    ELSE ReadStep(osfs_get_block(fs, ino, LogicalBlock(ppos), TRUE),
                  ino, ppos, len, ChunkAt(ppos, len), bytes_read, out)

\* while (len > 0) { ... }
ReadLoop(fs, ino, ppos, len, bytes_read, out) ==
    IF len <= 0
    THEN [fs |-> fs, ret |-> bytes_read, ppos |-> ppos, buf |-> Buffer(bytes_read, out)]
    ELSE ReadStep(osfs_get_block(fs, ino, LogicalBlock(ppos), FALSE),
                  ino, ppos, len, ChunkAt(ppos, len), bytes_read, out)

\* Seeded fault: the length is not clamped to the file's size.
ClampLenNever(ppos, len, i_size) == len

\* "if (*ppos + len > i_size) len = i_size - *ppos"
ClampLen(ppos, len, i_size) == IF ppos + len > i_size THEN i_size - ppos ELSE len

\* osfs_read(filp, buf, len, ppos): [fs, ret, ppos, buf]
osfs_read(fs, ino, ppos, len) ==
    IF fs.inode_table[ino].i_blocks = 0
    THEN [fs |-> fs, ret |-> 0, ppos |-> ppos, buf |-> Buffer(0, << >>)]
    ELSE IF ppos >= fs.inode_table[ino].i_size
    THEN [fs |-> fs, ret |-> 0, ppos |-> ppos, buf |-> Buffer(0, << >>)]
    ELSE ReadLoop(fs, ino, ppos, ClampLen(ppos, len, fs.inode_table[ino].i_size), 0, << >>)

\* Seeded fault: the size follows the position also when that is smaller.
WriteFinishAlways(fs, ino, ppos, bytes_written) ==
    [fs |-> [fs EXCEPT !.inode_table[ino].i_size = ppos],
     ret |-> bytes_written, ppos |-> ppos]

\* Step 5 of osfs_write: the size, after the loop.  (Positions are below 2^31
\* here, where the uint32_t i_size holds *ppos unchanged.)
WriteFinish(fs, ino, ppos, bytes_written) ==
    [fs |-> IF ppos > fs.inode_table[ino].i_size
            THEN [fs EXCEPT !.inode_table[ino].i_size = ppos]
            ELSE fs,
     ret |-> bytes_written, ppos |-> ppos]

\* Seeded fault: the error is returned also after bytes were copied.
WriteStopError(fs, ino, ppos, bytes_written, ret) ==
    [fs |-> fs, ret |-> ret, ppos |-> ppos]

\* "if (bytes_written > 0) break; return ret;"
WriteStop(fs, ino, ppos, bytes_written, ret) ==
    IF bytes_written > 0
    THEN WriteFinish(fs, ino, ppos, bytes_written)
    ELSE [fs |-> fs, ret |-> ret, ppos |-> ppos]

\* The loop of osfs_write; g is what osfs_get_block(inode, block,
\* &phys_block, 1) returned in this round.
RECURSIVE WriteLoop(_, _, _, _, _, _)
WriteStep(g, ino, ppos, len, to_write, bytes_written, buf) ==
    IF g.ret # 0 THEN WriteStop(g.fs, ino, ppos, bytes_written, g.ret)
    ELSE IF g.phys_block = 0 THEN WriteStop(g.fs, ino, ppos, bytes_written, -EIO)
    ELSE WriteLoop(
             [g.fs EXCEPT !.data_blocks =
                 CopyIn(@, BlockAddr(g.phys_block) + BlockOffset(ppos), to_write, buf,
                        bytes_written)],
             ino, ppos + to_write, len - to_write, bytes_written + to_write, buf)

WriteLoop(fs, ino, ppos, len, bytes_written, buf) ==
    IF len <= 0
    THEN WriteFinish(fs, ino, ppos, bytes_written)
    ELSE WriteStep(osfs_get_block(fs, ino, LogicalBlock(ppos), TRUE),
                   ino, ppos, len, ChunkAt(ppos, len), bytes_written, buf)

\* osfs_write(filp, buf, len, ppos): [fs, ret, ppos]
osfs_write(fs, ino, ppos, buf) == WriteLoop(fs, ino, ppos, buf.len, 0, buf)

\* ------------------------------------------------------------ dir.c

\* &dir_entries[i] of the directory block at address base
DirEntryAddr(base, i) == base + i * SIZEOF_DIR_ENTRY

\* dir_entry_count = i_size / sizeof(struct osfs_dir_entry)
DirEntryCount(osfs_inode) == osfs_inode.i_size \div SIZEOF_DIR_ENTRY

\* dir_data_block = sb_info->data_blocks + i_block[0] * BLOCK_SIZE
DirBlockAddr(osfs_inode) == BlockAddr(osfs_inode.i_block[0])

\* Seeded fault: the lengths are compared, the bytes are not.
EntryNameIsLenOnly(mem, e, name) == StrLen(mem, e) = Len(name)

\* strlen(e->filename) == name_len && strncmp(e->filename, name, name_len) == 0
EntryNameIs(mem, e, name) ==
    StrLen(mem, e) = Len(name) /\ StrNEq(mem, e, name, Len(name))

\* The filename of the entry at address e, as dir_emit reads it:
\* strlen(filename) bytes.
EntryName(mem, e) == [k \in 1..StrLen(mem, e) |-> mem[e + k - 1]]

\* entry->inode_no
EntryIno(mem, e) == MemWord(mem, e + INODE_NO_OFFSET)

\* Seeded fault: the scan stops one entry early ("i < count - 1").
FindEntryButLast(mem, base, count, name) ==
    FirstOrNone({i \in 0..(count - 2) : EntryNameIs(mem, DirEntryAddr(base, i), name)})

\* The index of the first entry named name, or -1: the scan shared by
\* osfs_lookup and osfs_add_dir_entry.
FindEntry(mem, base, count, name) ==
    FirstOrNone({i \in 0..(count - 1) : EntryNameIs(mem, DirEntryAddr(base, i), name)})

\* FindEntry in directory dir
FindInDir(fs, dir, name) ==
    FindEntry(fs.data_blocks, DirBlockAddr(fs.inode_table[dir]),
              DirEntryCount(fs.inode_table[dir]), name)

\* The end of osfs_lookup for the matching entry's inode number: osfs_iget
\* and d_splice_alias.
LookupInode(ino) ==
    IF ~osfs_get_osfs_inode_ok(ino) THEN [found |-> FALSE, ret |-> -EFAULT, ino |-> 0]
    ELSE [found |-> TRUE, ret |-> 0, ino |-> ino]

LookupAt(fs, dir, i) ==
    IF i = -1 THEN [found |-> FALSE, ret |-> 0, ino |-> 0]
    ELSE LookupInode(EntryIno(fs.data_blocks,
                              DirEntryAddr(DirBlockAddr(fs.inode_table[dir]), i)))

\* osfs_lookup(dir, dentry, flags): the inode bound to the dentry, NULL
\* (a negative dentry) or the error of osfs_iget.
osfs_lookup(fs, dir, name) == LookupAt(fs, dir, FindInDir(fs, dir, name))

\* The names "." and "..", as bytes.
Dot == <<46>>
DotDot == <<46, 46>>

\* dir_emit_dots (linux/fs.h) from pos 0: "." at pos 0, ".." at pos 1, each
\* only if the caller's buffer takes it.  [pos, out, room, ok]
DirEmitDots(dir, room) ==
    IF room < 1 THEN [pos |-> 0, out |-> << >>, room |-> room, ok |-> FALSE]
    ELSE IF room < 2 THEN [pos |-> 1, out |-> << <<Dot, dir>> >>, room |-> room - 1, ok |-> FALSE]
    \* the root is its own parent
    ELSE [pos |-> 2, out |-> << <<Dot, dir>>, <<DotDot, dir>> >>, room |-> room - 2, ok |-> TRUE]

\* "for (; i < dir_entry_count; i++) { dir_emit(...); ctx->pos++; }"
RECURSIVE IterateLoop(_, _, _, _, _, _, _)
IterateLoop(mem, base, count, i, pos, out, room) ==
    IF i >= count THEN [ret |-> 0, pos |-> pos, out |-> out]
    ELSE IF room < 1 THEN [ret |-> -EINVAL, pos |-> pos, out |-> out]
    ELSE IterateLoop(mem, base, count, i + 1, pos + 1,
                     Append(out, <<EntryName(mem, DirEntryAddr(base, i)),
                                   EntryIno(mem, DirEntryAddr(base, i))>>),
                     room - 1)

\* Seeded fault: "i = ctx->pos - 1", the first stored entry is skipped.
IterateEntriesSkipFirst(fs, dir, d) ==
    IF ~d.ok THEN [ret |-> 0, pos |-> d.pos, out |-> d.out]
    ELSE IterateLoop(fs.data_blocks, DirBlockAddr(fs.inode_table[dir]),
                     DirEntryCount(fs.inode_table[dir]), d.pos - 1, d.pos, d.out, d.room)

\* osfs_iterate after "if (ctx->pos == 0) dir_emit_dots": d is the cursor,
\* what was emitted and the room left.
IterateEntries(fs, dir, d) ==
    IF ~d.ok THEN [ret |-> 0, pos |-> d.pos, out |-> d.out]
    ELSE IterateLoop(fs.data_blocks, DirBlockAddr(fs.inode_table[dir]),
                     DirEntryCount(fs.inode_table[dir]), d.pos - 2, d.pos, d.out, d.room)

\* osfs_iterate(filp, ctx): [ret, pos, out]; out is what dir_emit was given,
\* room the number of entries the caller's buffer still takes.  From cursor
\* 1 (after "." alone was emitted) the dots are skipped and the loop starts
\* at i = -1, at the SIZEOF_DIR_ENTRY bytes in front of the directory block.
osfs_iterate(fs, dir, pos, room) ==
    IterateEntries(fs, dir,
                   IF pos = 0 THEN DirEmitDots(dir, room)
                   ELSE [pos |-> pos, out |-> << >>, room |-> room, ok |-> TRUE])

\* "sb_info->nr_free_inodes--" at the end of osfs_new_inode
NewInodeCount(n) == U32Dec(n)

\* osfs_new_inode after osfs_get_free_inode returned g.
NewInodeInit(g, mode) ==
    IF g.ret < 0 \/ g.ret >= INODE_COUNT
    THEN [fs |-> g.fs, ret |-> -ENOSPC, ino |-> 0, err |-> "no free inode available"]
    ELSE [fs |-> [g.fs EXCEPT
                    !.inode_table[g.ret] = [ZeroInode EXCEPT !.i_ino = g.ret, !.i_mode = mode],
                    !.nr_free_inodes = NewInodeCount(@)],
          ret |-> 0, ino |-> g.ret, err |-> "none"]

\* osfs_new_inode(dir, mode): [fs, ret, ino, err]; ret 0 stands for the
\* inode returned, err names the failing path.
osfs_new_inode(fs, mode) ==
    IF mode \notin {S_IFDIR, S_IFREG, S_IFLNK}
    THEN [fs |-> fs, ret |-> -EINVAL, ino |-> 0, err |-> "file type not supported"]
    ELSE IF fs.nr_free_inodes = 0
    THEN [fs |-> fs, ret |-> -ENOSPC, ino |-> 0, err |-> "nr_free_inodes is 0"]
    ELSE NewInodeInit(osfs_get_free_inode(fs), mode)

\* After osfs_alloc_data_block(sb_info, &parent_inode->i_block[0]) returned a:
\* i_blocks = 1 and the memset.
StoreDirBlock(a, dir) ==
    IF a.ret # 0 THEN [fs |-> a.fs, ret |-> a.ret]
    ELSE [fs |-> [a.fs EXCEPT
                    !.inode_table[dir].i_block[0] = a.block_no,
                    !.inode_table[dir].i_blocks = 1,
                    !.data_blocks = MemZero(@, BlockAddr(a.block_no), BLOCK_SIZE)],
          ret |-> 0]

\* Seeded fault: the directory's block is never allocated, its entries go to
\* the block its zero pointer names.
EnsureDirBlockNever(fs, dir) == [fs |-> fs, ret |-> 0]

\* The directory's first block, allocated by the first insert:
\* "if (parent_inode->i_blocks == 0) { ... }".  [fs, ret]
EnsureDirBlock(fs, dir) ==
    IF fs.inode_table[dir].i_blocks # 0 THEN [fs |-> fs, ret |-> 0]
    ELSE StoreDirBlock(osfs_alloc_data_block(fs), dir)

\* The entry written at address e: strncpy(filename, name, name_len);
\* filename[name_len] = '\0'; inode_no = ino.
StoreEntry(mem, e, inode_no, name) ==
    MemSetWord(
        MemStore(
            MemStore(mem, e, Len(name), [a \in e..(e + Len(name) - 1) |-> name[a - e + 1]]),
            e + Len(name), 1, << >>),
        e + INODE_NO_OFFSET, inode_no)

\* Seeded fault: the size grows by the offset of inode_no, not by the record.
AppendEntryShortSize(fs, dir, dir_entry_count, inode_no, name) ==
    [fs EXCEPT
        !.data_blocks = StoreEntry(@, DirEntryAddr(DirBlockAddr(fs.inode_table[dir]),
                                                   dir_entry_count),
                                   inode_no, name),
        !.inode_table[dir].i_size = @ + INODE_NO_OFFSET]

\* The new entry at index dir_entry_count, and the directory's size.
AppendEntry(fs, dir, dir_entry_count, inode_no, name) ==
    [fs EXCEPT
        !.data_blocks = StoreEntry(@, DirEntryAddr(DirBlockAddr(fs.inode_table[dir]),
                                                   dir_entry_count),
                                   inode_no, name),
        !.inode_table[dir].i_size = @ + SIZEOF_DIR_ENTRY]

\* Seeded fault: the capacity test with ">" for ">=".
AddEntryOneTooMany(fs, dir, inode_no, name) ==
    IF DirEntryCount(fs.inode_table[dir]) > MAX_DIR_ENTRIES
    THEN [fs |-> fs, ret |-> -ENOSPC, err |-> "parent directory is full"]
    ELSE IF FindInDir(fs, dir, name) # -1
    THEN [fs |-> fs, ret |-> -EEXIST, err |-> "already exists"]
    ELSE [fs |-> AppendEntry(fs, dir, DirEntryCount(fs.inode_table[dir]), inode_no, name),
          ret |-> 0, err |-> "none"]

\* osfs_add_dir_entry once the directory has its block (fs).
AddEntry(fs, dir, inode_no, name) ==
    IF DirEntryCount(fs.inode_table[dir]) >= MAX_DIR_ENTRIES
    THEN [fs |-> fs, ret |-> -ENOSPC, err |-> "parent directory is full"]
    ELSE IF FindInDir(fs, dir, name) # -1
    THEN [fs |-> fs, ret |-> -EEXIST, err |-> "already exists"]
    ELSE [fs |-> AppendEntry(fs, dir, DirEntryCount(fs.inode_table[dir]), inode_no, name),
          ret |-> 0, err |-> "none"]

AddEntryAfterBlock(b, dir, inode_no, name) ==
    IF b.ret # 0
    THEN [fs |-> b.fs, ret |-> b.ret, err |-> "no data block for directory"]
    ELSE AddEntry(b.fs, dir, inode_no, name)

\* osfs_add_dir_entry(dir, inode_no, name, name_len): [fs, ret, err]
osfs_add_dir_entry(fs, dir, inode_no, name) ==
    AddEntryAfterBlock(EnsureDirBlock(fs, dir), dir, inode_no, name)

\* Steps 5 and 6 of osfs_create, or the error of osfs_add_dir_entry (a).
CreateAfterAdd(a, ino) ==
    IF a.ret # 0 THEN [fs |-> a.fs, ret |-> a.ret, ino |-> 0, err |-> a.err]
    ELSE [fs |-> a.fs, ret |-> 0, ino |-> ino, err |-> "none"]

\* Step 4 of osfs_create, or the error of osfs_new_inode (n).
CreateAfterNewInode(n, dir, name) ==
    IF n.ret # 0 THEN [fs |-> n.fs, ret |-> n.ret, ino |-> 0, err |-> n.err]
    ELSE CreateAfterAdd(osfs_add_dir_entry(n.fs, dir, n.ino, name), n.ino)

\* Seeded fault: the name's length is tested after the inode was allocated.
osfs_create_late_length_test(fs, dir, name, mode) ==
    IF Len(name) > MAX_FILENAME_LEN
    THEN [fs |-> osfs_new_inode(fs, mode).fs, ret |-> -ENAMETOOLONG, ino |-> 0,
          err |-> "filename too long"]
    ELSE CreateAfterNewInode(osfs_new_inode(fs, mode), dir, name)

\* osfs_create(idmap, dir, dentry, mode, excl): [fs, ret, ino, err]
osfs_create(fs, dir, name, mode) ==
    IF Len(name) > MAX_FILENAME_LEN
    THEN [fs |-> fs, ret |-> -ENAMETOOLONG, ino |-> 0, err |-> "filename too long"]
    ELSE CreateAfterNewInode(osfs_new_inode(fs, mode), dir, name)

\* ------------------------------------------------------------ the basic variant
\*
\* Lab4_Template_Update/{dir,file}.c.  Its struct osfs_inode has one scalar
\* i_block, kept here in slot 0 of the record's i_block; its allocators,
\* osfs_lookup and osfs_iterate are those above, and its osfs_add_dir_entry
\* is AddEntry (there is no allocation of the directory's block).

\* The end of the basic osfs_new_inode, a being the allocation of the new
\* inode's block: "&osfs_inode->i_block" is written, nr_free_inodes--.
BasicNewInodeBlock(a, ino) ==
    IF a.ret # 0 THEN [fs |-> a.fs, ret |-> a.ret, ino |-> 0]
    ELSE [fs |-> [a.fs EXCEPT !.inode_table[ino].i_block[0] = a.block_no,
                              !.nr_free_inodes = U32Dec(@)],
          ret |-> 0, ino |-> ino]

\* The basic osfs_new_inode after osfs_get_free_inode returned g.
BasicNewInodeInit(g, mode) ==
    IF g.ret < 0 \/ g.ret >= INODE_COUNT THEN [fs |-> g.fs, ret |-> -ENOSPC, ino |-> 0]
    ELSE BasicNewInodeBlock(
             osfs_alloc_data_block(
                 [g.fs EXCEPT !.inode_table[g.ret] =
                     [ZeroInode EXCEPT !.i_ino = g.ret, !.i_mode = mode, !.i_blocks = 1]]),
             g.ret)

\* The basic osfs_new_inode(dir, mode): [fs, ret, ino]
basic_osfs_new_inode(fs, mode) ==
    IF mode \notin {S_IFDIR, S_IFREG, S_IFLNK} THEN [fs |-> fs, ret |-> -EINVAL, ino |-> 0]
    ELSE IF fs.nr_free_inodes = 0 \/ fs.nr_free_blocks = 0
    THEN [fs |-> fs, ret |-> -ENOSPC, ino |-> 0]
    ELSE BasicNewInodeInit(osfs_get_free_inode(fs), mode)

\* The basic osfs_create after osfs_new_inode returned n: "i_size = 0", then
\* osfs_add_dir_entry.
BasicCreateAfterNewInode(n, dir, name) ==
    IF n.ret # 0 THEN [fs |-> n.fs, ret |-> n.ret, ino |-> 0, err |-> "no inode"]
    ELSE CreateAfterAdd(
             AddEntry([n.fs EXCEPT !.inode_table[n.ino].i_size = 0], dir, n.ino, name), n.ino)

\* The basic osfs_create: [fs, ret, ino, err]
basic_osfs_create(fs, dir, name, mode) ==
    IF Len(name) > MAX_FILENAME_LEN
    THEN [fs |-> fs, ret |-> -ENAMETOOLONG, ino |-> 0, err |-> "filename too long"]
    ELSE BasicCreateAfterNewInode(basic_osfs_new_inode(fs, mode), dir, name)

\* "if (*ppos + len > BLOCK_SIZE) len = BLOCK_SIZE - *ppos": len is a size_t,
\* and a negative value here stands for the size_t it wraps to, 2^64 + value.
BasicWriteLen(ppos, len) == IF ppos + len > BLOCK_SIZE THEN BLOCK_SIZE - ppos ELSE len

\* Steps 3 to 6 of the basic osfs_write, len being the length after step 3.
\* "if (len <= 0)" on a size_t holds for 0 only; copy_from_user refuses a
\* length above INT_MAX (check_copy_size, linux/uaccess.h) and copies nothing.
BasicWriteCopy(fs, ino, ppos, len, buf) ==
    IF len = 0 THEN [fs |-> fs, ret |-> 0, ppos |-> ppos]
    ELSE IF len < 0 THEN [fs |-> fs, ret |-> -EFAULT, ppos |-> ppos]
    ELSE WriteFinish(
             [fs EXCEPT !.data_blocks =
                 CopyIn(@, BlockAddr(fs.inode_table[ino].i_block[0]) + ppos, len, buf, 0)],
             ino, ppos + len, len)

\* Step 2 of the basic osfs_write, a being the allocation for a file without
\* a block.
BasicWriteAfterAlloc(a, ino, ppos, buf) ==
    IF a.ret # 0 THEN [fs |-> a.fs, ret |-> a.ret, ppos |-> ppos]
    ELSE BasicWriteCopy(
             [a.fs EXCEPT !.inode_table[ino].i_block[0] = a.block_no,
                          !.inode_table[ino].i_blocks = 1],
             ino, ppos, BasicWriteLen(ppos, buf.len), buf)

\* The basic osfs_write(filp, buf, len, ppos): [fs, ret, ppos]
basic_osfs_write(fs, ino, ppos, buf) ==
    IF fs.inode_table[ino].i_blocks = 0
    THEN BasicWriteAfterAlloc(osfs_alloc_data_block(fs), ino, ppos, buf)
    ELSE BasicWriteCopy(fs, ino, ppos, BasicWriteLen(ppos, buf.len), buf)

\* ------------------------------------------------------------ super.c

\* The root directory's osfs_inode.
RootInode == [ZeroInode EXCEPT !.i_ino = ROOT_INODE, !.i_mode = S_IFDIR, !.i_links_count = 2]

\* Seeded fault: the root's inode is not counted, nr_free_inodes = INODE_COUNT.
osfs_fill_super_root_uncounted ==
    [inode_bitmap |-> {ROOT_INODE},
     block_bitmap |-> {},
     nr_free_inodes |-> INODE_COUNT,
     nr_free_blocks |-> DATA_BLOCK_COUNT,
     inode_table |-> [i \in 0..(INODE_COUNT - 1) |-> IF i = ROOT_INODE THEN RootInode ELSE ZeroInode],
     data_blocks |-> << >>]

\* osfs_fill_super: the region is zeroed, the counters are set, the root
\* directory inode is built in slot ROOT_INODE and its bit is set.
osfs_fill_super ==
    [inode_bitmap |-> {ROOT_INODE},
     block_bitmap |-> {},
     nr_free_inodes |-> INODE_COUNT - 1,
     nr_free_blocks |-> DATA_BLOCK_COUNT,
     inode_table |-> [i \in 0..(INODE_COUNT - 1) |-> IF i = ROOT_INODE THEN RootInode ELSE ZeroInode],
     data_blocks |-> << >>]

\* ------------------------------------------------------------ lab1

\* "./sender 1 input.txt (1 for Message Passing, 2 for Shared Memory)"
MSG_PASSING == 1
SHARED_MEM == 2

\* '\n', and the text "exit"
NEWLINE == 10
ExitText == <<101, 120, 105, 116>>

\* fgets(message.msgText, sizeof(message.msgText), fp) with the file at its
\* fp-th byte: the index of the last byte read, the next newline or the end
\* of the file (the lines of the model are shorter than msgText).
FgetsEnd(file, fp) == SetMin({j \in fp..Len(file) : file[j] = NEWLINE \/ j = Len(file)})

\* "if (len > 0 && message.msgText[len - 1] == '\n') message.msgText[len - 1] = '\0'"
StripNewline(text) ==
    IF Len(text) > 0 /\ text[Len(text)] = NEWLINE THEN SubSeq(text, 1, Len(text) - 1) ELSE text

\* The sender after fgets: at the end of the file it leaves the loop, and
\* otherwise it holds the next line as its message.
Fgets(s, file) ==
    IF s.fp > Len(file) THEN [s EXCEPT !.pc = "wait", !.eof = TRUE]
    ELSE [s EXCEPT !.pc = "wait",
                   !.msgText = StripNewline(SubSeq(file, s.fp, FgetsEnd(file, s.fp))),
                   !.fp = FgetsEnd(file, s.fp) + 1]

\* send(message, &mailbox): msgsnd to the queue, or strcpy into the segment.
send(text, mbox) ==
    IF mbox.flag = MSG_PASSING THEN [mbox EXCEPT !.msq = Append(@, text)]
    ELSE [mbox EXCEPT !.shm = text]

\* The mailbox after the receiver took its message: msgrcv removes the first
\* message of the queue, strcpy leaves the segment as it is.
Taken(mbox) == IF mbox.flag = MSG_PASSING THEN [mbox EXCEPT !.msq = Tail(@)] ELSE mbox

\* The text the receiver takes.
Text(mbox) == IF mbox.flag = MSG_PASSING THEN Head(mbox.msq) ELSE mbox.shm

\* Both processes past their set-up: the semaphores at 0 and 1, an empty
\* queue, a zeroed segment, the sender about to read the first line of file.
Started(file, flag) ==
    /\ sem_sender = 0
    /\ sem_receiver = 1
    /\ mailbox = [flag |-> flag, msq |-> << >>, shm |-> << >>]
    /\ sender = [pc |-> "fgets", fp |-> 1, msgText |-> << >>, eof |-> FALSE, sent |-> << >>]
    /\ receiver = [pc |-> "wait", msgText |-> << >>, got |-> << >>]
    /\ input_file = file

\* ------------------------------------------------------------ inputs

\* The pieces input files are made of, and how many of them at most.
Pieces == {<<97>>, ExitText, <<NEWLINE>>}
MaxPieces == 4

\* The concatenations of n pieces.
RECURSIVE FilesOf(_)
FilesOf(n) == IF n = 0 THEN {<< >>} ELSE {f \o p : f \in FilesOf(n - 1), p \in Pieces}

InputFiles == UNION {FilesOf(n) : n \in 0..MaxPieces}

\* Calls per behaviour of Spec.
MaxOps == 3
\* Creates per behaviour of SpecCreate.
MaxCreates == 19
\* Distinct one-character file names of Spec.
NumNames == 2
\* Entries the larger of the caller's getdents buffers takes.
MaxRoom == 5

\* The k-th one-character name: "a", "b", ...
FreshName(k) == <<97 + k>>

\* A name of n characters 'x'.
LongName(n) == [k \in 1..n |-> 120]

\* The names of Spec: "a", "b", ..., and a name one character too long.
ShortNames == {FreshName(k) : k \in 0..(NumNames - 1)}
Names == ShortNames \cup {LongName(MAX_FILENAME_LEN + 1)}

\* The names the k-th create of SpecCreate chooses from: the k-th
\* one-character name and a long one, of the longest legal length for k = 0
\* and one character shorter with each k.
NamesAt(k) == {FreshName(k), LongName(MAX_FILENAME_LEN - k)}

\* First logical block of the single-indirect, the double-indirect and the
\* unaddressable range.
FirstIndirect == OSFS_N_DIRECT
FirstDIndirect == OSFS_N_DIRECT + OSFS_ADDR_PER_BLOCK
FirstTooBig == OSFS_N_DIRECT + OSFS_ADDR_PER_BLOCK + OSFS_ADDR_PER_BLOCK * OSFS_ADDR_PER_BLOCK

\* File positions: the start, the last byte of the first block, and the start
\* of each range.
Offsets == {0, BLOCK_SIZE - 1, FirstIndirect * BLOCK_SIZE, FirstDIndirect * BLOCK_SIZE,
            FirstTooBig * BLOCK_SIZE}

\* Lengths: nothing, one byte, a block and a byte, the whole direct range,
\* the direct range and a byte.
Lengths == {0, 1, BLOCK_SIZE + 1, OSFS_N_DIRECT * BLOCK_SIZE, OSFS_N_DIRECT * BLOCK_SIZE + 1}

\* Lengths of reads: the same, a read of nothing left out.
ReadLengths == Lengths \ {0}

\* A getdents buffer that takes one entry per call, and one that takes MaxRoom.
Rooms == {1, MaxRoom}

\* The cursors of a directory: 0, 1, and 2 + i for each index i up to the
\* capacity.
Cursors == 0..(MAX_DIR_ENTRIES + 2)

\* What dir_entries[-1] of a directory in block 0 can hold.  The bytes in
\* front of the data area are the end of the inode table (super.c:76-77);
\* the code does not fix what they are when read as a directory entry: zero
\* bytes throughout, or a stray name and inode number.
FrontViews ==
    {<< >>, StoreEntry(<< >>, -SIZEOF_DIR_ENTRY, INODE_COUNT - 1, <<120>>)}

\* The filesystem with the bytes front in front of its data area.
InFrontOf(fs, front) == [fs EXCEPT !.data_blocks = front @@ @]

\* Writes and frees per behaviour of SpecFill, after its creates.
MaxFill == 4

\* Calls in SpecReuse.
MaxReuse == 6

\* The first and the last byte of a file's first block.
ReuseOffsets == {0, BLOCK_SIZE - 1}

\* Allocations per caller in SpecRace.
MaxAllocs == 2

\* Last logical block the double-indirect range addresses.
LastBlock == FirstTooBig - 1

\* File positions of SpecFill: the start, the last addressable block, and the
\* first byte beyond it.
FillOffsets == {0, LastBlock * BLOCK_SIZE, FirstTooBig * BLOCK_SIZE}

\* Lengths of SpecFill: one byte, and the direct range and a byte (14 of the
\* DATA_BLOCK_COUNT blocks from offset 0).
FillLengths == {1, OSFS_N_DIRECT * BLOCK_SIZE + 1}

\* Logical blocks beyond the addressable range: the first, the next, and two
\* far ones.
TooBigBlocks == {FirstTooBig, FirstTooBig + 1, 2 * FirstTooBig, INT32_MAX \div BLOCK_SIZE}

\* The callers that can be inside osfs_alloc_data_block at once, for example
\* two writes to two files.
Threads == {1, 2}

\* File positions in the double-indirect range: two blocks of the first
\* second-level index block, the first block of the next one, the last block.
DIndirectOffsets ==
    {FirstDIndirect * BLOCK_SIZE, (FirstDIndirect + 1) * BLOCK_SIZE,
     (FirstDIndirect + OSFS_ADDR_PER_BLOCK) * BLOCK_SIZE, LastBlock * BLOCK_SIZE}

\* File positions and lengths of SpecBasic: around the end of the one block.
BasicOffsets == {0, BLOCK_SIZE - 1, BLOCK_SIZE, BLOCK_SIZE + 1}
BasicLengths == {0, 1, BLOCK_SIZE, BLOCK_SIZE + 1}

\* The bytes of a user buffer of len bytes: non-zero at its first two and its
\* last position and on both sides of every BLOCK_SIZE boundary, 0 elsewhere;
\* the values depend on the position and on seed.
MarkedPositions(len) ==
    {p \in {0, 1, len - 1} \cup {k * BLOCK_SIZE - d : k \in 1..(len \div BLOCK_SIZE), d \in {0, 1}} :
        p >= 0 /\ p < len}

UserBuffer(len, seed) ==
    Buffer(len, [p \in MarkedPositions(len) |-> ((7 * p + seed) % 255) + 1])

\* The regular files a caller can open: what the root's names resolve to.
OpenFiles ==
    {r.ino : r \in {x \in {osfs_lookup(FS, ROOT_INODE, n) : n \in Names} : x.found}}

\* ------------------------------------------------------------ actions

Mounted ==
    /\ inode_bitmap = osfs_fill_super.inode_bitmap
    /\ block_bitmap = osfs_fill_super.block_bitmap
    /\ nr_free_inodes = osfs_fill_super.nr_free_inodes
    /\ nr_free_blocks = osfs_fill_super.nr_free_blocks
    /\ inode_table = osfs_fill_super.inode_table
    /\ data_blocks = osfs_fill_super.data_blocks
    /\ created = << >>
    /\ last = [op |-> "mount"]
    /\ nops = 0
    /\ written = [ino \in 0..(INODE_COUNT - 1) |-> {}]
    /\ threads = [t \in Threads |-> [pc |-> "test", i |-> 0, tmp |-> 0, got |-> << >>]]

\* The filesystem after mount; lab1's processes have an empty file to send.
Init == Mounted /\ Started(<< >>, MSG_PASSING)

\* No caller is inside the allocator while a whole call is taken as one step,
\* and lab1's processes take none.
Idle == UNCHANGED <<threads, lab1>>

\* The history after a write to ino at ppos that returned ret.
Wrote(ino, ppos, ret) ==
    IF ret > 0 THEN [written EXCEPT ![ino] = @ \cup {<<ppos, ppos + ret>>}] ELSE written

CreateDone(r, name) ==
    /\ Idle
    /\ SetFS(r.fs)
    /\ created' = IF r.ret = 0 THEN Append(created, <<name, r.ino>>) ELSE created
    /\ last' = [op |-> "create", name |-> name, ret |-> r.ret, ino |-> r.ino, err |-> r.err,
                pre_count |-> DirEntryCount(inode_table[ROOT_INODE]),
                pre_exists |-> FindInDir(FS, ROOT_INODE, name) # -1,
                pre_inode_bitmap |-> inode_bitmap,
                pre_nr_free_inodes |-> nr_free_inodes,
                pre_nr_free_blocks |-> nr_free_blocks,
                pre_fs |-> FS]
    /\ nops' = nops + 1
    /\ UNCHANGED written

\* create(2) of name in the root directory.
Create(name) ==
    /\ CreateDone(osfs_create(FS, ROOT_INODE, name, S_IFREG), name)

WriteDone(r, ino, ppos, buf) ==
    /\ Idle
    /\ SetFS(r.fs)
    /\ last' = [op |-> "write", ino |-> ino, ppos |-> ppos, buf |-> buf, ret |-> r.ret,
                new_ppos |-> r.ppos,
                pre_inode |-> inode_table[ino],
                pre_block_bitmap |-> block_bitmap,
                pre_nr_free_blocks |-> nr_free_blocks,
                pre_fs |-> FS]
    /\ nops' = nops + 1
    /\ written' = Wrote(ino, ppos, r.ret)
    /\ UNCHANGED created

WriteBuffer(ino, ppos, buf) == WriteDone(osfs_write(FS, ino, ppos, buf), ino, ppos, buf)

\* write(2) of a buffer of len bytes at position ppos of an open file.
Write(ino, ppos, len) ==
    /\ WriteBuffer(ino, ppos, UserBuffer(len, nops))

ReadDone(r, ino, ppos, len) ==
    /\ Idle
    /\ SetFS(r.fs)
    /\ last' = [op |-> "read", ino |-> ino, ppos |-> ppos, len |-> len, ret |-> r.ret,
                new_ppos |-> r.ppos, buf |-> r.buf,
                pre_inode |-> inode_table[ino]]
    /\ nops' = nops + 1
    /\ UNCHANGED <<created, written>>

\* read(2) of len bytes at position ppos of an open file.
Read(ino, ppos, len) ==
    /\ ReadDone(osfs_read(FS, ino, ppos, len), ino, ppos, len)

LookupDone(r, name) ==
    /\ Idle
    /\ last' = [op |-> "lookup", name |-> name, found |-> r.found, ret |-> r.ret, ino |-> r.ino]
    /\ UNCHANGED <<inode_bitmap, block_bitmap, nr_free_inodes, nr_free_blocks,
                   inode_table, data_blocks, created, written>>

\* A path lookup of name in the root directory.
Lookup(name) ==
    /\ LookupDone(osfs_lookup(FS, ROOT_INODE, name), name)
    /\ nops' = nops + 1

IterateDone(r, pos, room) ==
    /\ Idle
    /\ last' = [op |-> "iterate", pos |-> pos, room |-> room, ret |-> r.ret,
                new_pos |-> r.pos, out |-> r.out]
    /\ UNCHANGED <<inode_bitmap, block_bitmap, nr_free_inodes, nr_free_blocks,
                   inode_table, data_blocks, created, written>>

\* getdents(2) on the root directory, from cursor pos, into a buffer that
\* takes room entries.
Iterate(pos, room) ==
    /\ \E front \in FrontViews :
          IterateDone(osfs_iterate(InFrontOf(FS, front), ROOT_INODE, pos, room), pos, room)
    /\ nops' = nops + 1

\* osfs_free_inode_blocks on a regular file's inode.
FreeInodeBlocks(ino) ==
    /\ Idle
    /\ SetFS(osfs_free_inode_blocks(FS, ino))
    /\ last' = [op |-> "free_inode_blocks", ino |-> ino,
                pre_inode |-> inode_table[ino],
                pre_block_bitmap |-> block_bitmap,
                pre_nr_free_blocks |-> nr_free_blocks]
    /\ nops' = nops + 1
    /\ written' = [written EXCEPT ![ino] = {}]
    /\ UNCHANGED created

DoCreate == nops < MaxOps /\ \E name \in Names : Create(name)
DoWrite == nops < MaxOps /\ \E ino \in OpenFiles, ppos \in Offsets, len \in Lengths : Write(ino, ppos, len)
DoRead == nops < MaxOps /\ \E ino \in OpenFiles, ppos \in Offsets, len \in ReadLengths : Read(ino, ppos, len)
DoLookup == nops < MaxOps /\ \E name \in Names : Lookup(name)
DoIterate == nops < MaxOps /\ \E pos \in Cursors, room \in Rooms : Iterate(pos, room)
DoFreeInodeBlocks == nops < MaxOps /\ \E ino \in OpenFiles : FreeInodeBlocks(ino)

Next == DoCreate \/ DoWrite \/ DoRead \/ DoLookup \/ DoIterate \/ DoFreeInodeBlocks

\* Any calls, MaxOps of them.
Spec == Init /\ [][Next]_vars

\* The nops-th create of a sequence of creates with pairwise distinct names.
CreateFresh ==
    /\ nops < MaxCreates
    /\ \E name \in NamesAt(nops) :
          CreateDone(osfs_create(FS, ROOT_INODE, name, S_IFREG), name)

\* A lookup between two creates of the sequence, of a name one of the first
\* creates has chosen or has not.
LookupBetween ==
    \E k \in 0..MAX_DIR_ENTRIES :
        \E name \in NamesAt(k) :
            /\ LookupDone(osfs_lookup(FS, ROOT_INODE, name), name)
            /\ UNCHANGED nops

\* A getdents call between two creates of the sequence.
IterateBetween ==
    \E pos \in Cursors, room \in Rooms, front \in FrontViews :
        /\ IterateDone(osfs_iterate(InFrontOf(FS, front), ROOT_INODE, pos, room), pos, room)
        /\ UNCHANGED nops

NextCreate == CreateFresh \/ LookupBetween \/ IterateBetween

\* A freshly mounted instance and creates with pairwise distinct names,
\* MaxCreates of them, with lookups and getdents calls in between.
SpecCreate == Init /\ [][NextCreate]_vars

\* The files SpecFill writes to: what its first two names, "a" and "b",
\* resolve to.
FillFiles ==
    {r.ino : r \in {x \in {osfs_lookup(FS, ROOT_INODE, FreshName(k)) : k \in {0, 1}} : x.found}}

\* A create of SpecFill: the nops-th call, with a name no call before it chose.
FillCreate ==
    /\ nops < MaxCreates + MaxFill
    /\ CreateDone(osfs_create(FS, ROOT_INODE, FreshName(nops), S_IFREG), FreshName(nops))

\* A write of SpecFill, once the creates have used up the inode numbers.
FillWrite ==
    /\ nops >= MaxCreates
    /\ nops < MaxCreates + MaxFill
    /\ \E ino \in FillFiles, ppos \in FillOffsets, len \in FillLengths : Write(ino, ppos, len)

\* osfs_free_inode_blocks in SpecFill.
FillFree ==
    /\ nops >= MaxCreates
    /\ nops < MaxCreates + MaxFill
    /\ \E ino \in FillFiles : FreeInodeBlocks(ino)

NextFill == FillCreate \/ FillWrite \/ FillFree

\* A freshly mounted instance filled up: MaxCreates creates, which use up the
\* inode numbers, and then MaxFill calls, each a write to or a free of the
\* files "a" and "b" or one more create, which use up the data blocks.
SpecFill == Init /\ [][NextFill]_vars

DIndirectCreate == nops < MaxFill /\ \E name \in Names : Create(name)

\* A write of one byte, which resolves one logical block with create set.
DIndirectWrite ==
    /\ nops < MaxFill
    /\ \E ino \in OpenFiles, ppos \in DIndirectOffsets : Write(ino, ppos, 1)

NextDIndirect == DIndirectCreate \/ DIndirectWrite

\* Creates and one-byte writes in the double-indirect range, MaxFill of them.
SpecDIndirect == Init /\ [][NextDIndirect]_vars

\* One step of thread t inside osfs_alloc_data_block, which takes no lock.
\* "if (!test_bit(i, sb_info->block_bitmap))": the scan has passed the bits
\* that are set and stands at the first clear one, or has run out (-ENOSPC).
AllocTest(t) ==
    /\ threads[t].pc = "test"
    /\ threads' = [threads EXCEPT ![t] =
          IF FirstClearBit(block_bitmap, 0, DATA_BLOCK_COUNT) = -1
          THEN [@ EXCEPT !.pc = "done"]
          ELSE [@ EXCEPT !.pc = "set", !.i = FirstClearBit(block_bitmap, 0, DATA_BLOCK_COUNT)]]
    /\ UNCHANGED <<inode_bitmap, block_bitmap, nr_free_inodes, nr_free_blocks,
                   inode_table, data_blocks, created, last, nops, written, lab1>>

\* "set_bit(i, sb_info->block_bitmap)"
AllocSet(t) ==
    /\ threads[t].pc = "set"
    /\ block_bitmap' = block_bitmap \cup {threads[t].i}
    /\ threads' = [threads EXCEPT ![t].pc = "load"]
    /\ UNCHANGED <<inode_bitmap, nr_free_inodes, nr_free_blocks,
                   inode_table, data_blocks, created, last, nops, written, lab1>>

\* "sb_info->nr_free_blocks--", a plain read-modify-write: the read
AllocLoad(t) ==
    /\ threads[t].pc = "load"
    /\ threads' = [threads EXCEPT ![t].pc = "store", ![t].tmp = nr_free_blocks]
    /\ UNCHANGED <<inode_bitmap, block_bitmap, nr_free_inodes, nr_free_blocks,
                   inode_table, data_blocks, created, last, nops, written, lab1>>

\* its write, then "*block_no = i; return 0"; the caller goes on to its next
\* allocation, if it has one.
AllocStore(t) ==
    /\ threads[t].pc = "store"
    /\ nr_free_blocks' = U32Dec(threads[t].tmp)
    /\ threads' = [threads EXCEPT ![t].got = Append(@, threads[t].i),
                                  ![t].pc = IF Len(threads[t].got) + 1 < MaxAllocs
                                            THEN "test" ELSE "done"]
    /\ UNCHANGED <<inode_bitmap, block_bitmap, nr_free_inodes,
                   inode_table, data_blocks, created, last, nops, written, lab1>>

NextRace == \E t \in Threads : AllocTest(t) \/ AllocSet(t) \/ AllocLoad(t) \/ AllocStore(t)

\* After mount, two callers allocate MaxAllocs blocks each, their steps
\* interleaved in any way.
SpecRace == Init /\ [][NextRace]_vars

ReuseCreate == nops < MaxReuse /\ \E name \in Names : Create(name)

ReuseWrite ==
    /\ nops < MaxReuse
    /\ \E ino \in OpenFiles, ppos \in ReuseOffsets : Write(ino, ppos, 1)

ReuseFree == nops < MaxReuse /\ \E ino \in OpenFiles : FreeInodeBlocks(ino)

ReuseRead ==
    /\ nops < MaxReuse
    /\ \E ino \in OpenFiles, ppos \in ReuseOffsets : Read(ino, ppos, 1)

NextReuse == ReuseCreate \/ ReuseWrite \/ ReuseFree \/ ReuseRead

\* Creates, one-byte writes and reads in the first block of a file, and
\* osfs_free_inode_blocks, MaxReuse calls in all.
SpecReuse == Init /\ [][NextReuse]_vars

\* create(2) of name in the root directory of the basic variant.
BasicCreate ==
    /\ nops < MaxOps
    /\ \E name \in Names :
          CreateDone(basic_osfs_create(FS, ROOT_INODE, name, S_IFREG), name)

BasicWriteDone(r, ino, ppos, buf) ==
    /\ Idle
    /\ SetFS(r.fs)
    /\ last' = [op |-> "write", ino |-> ino, ppos |-> ppos, buf |-> buf, ret |-> r.ret,
                new_ppos |-> r.ppos, pre_fs |-> FS]
    /\ nops' = nops + 1
    /\ written' = Wrote(ino, ppos, r.ret)
    /\ UNCHANGED created

\* write(2) to an open file of the basic variant.
BasicWrite ==
    /\ nops < MaxOps
    /\ \E ino \in OpenFiles, ppos \in BasicOffsets, len \in BasicLengths :
          BasicWriteDone(basic_osfs_write(FS, ino, ppos, UserBuffer(len, nops)),
                         ino, ppos, UserBuffer(len, nops))

NextBasic == BasicCreate \/ BasicWrite

\* The basic variant: any creates and writes, MaxOps of them.
SpecBasic == Init /\ [][NextBasic]_vars

\* "while (fgets(message.msgText, sizeof(message.msgText), fp) != NULL)"
SenderFgets ==
    /\ sender.pc = "fgets"
    /\ sender' = Fgets(sender, input_file)
    /\ UNCHANGED <<osfs, sem_sender, sem_receiver, mailbox, receiver, input_file>>

\* "sem_wait(sem_receiver)", in the loop and after it, where
\* 'strcpy(message.msgText, "exit")' follows.
SenderWait ==
    /\ sender.pc = "wait"
    /\ sem_receiver > 0
    /\ sem_receiver' = sem_receiver - 1
    /\ sender' = [sender EXCEPT !.pc = "send",
                                !.msgText = IF sender.eof THEN ExitText ELSE @]
    /\ UNCHANGED <<osfs, sem_sender, mailbox, receiver, input_file>>

\* "send(message, &mailbox)", and the same two calls after the loop.
SenderSend ==
    /\ sender.pc = "send"
    /\ mailbox' = send(sender.msgText, mailbox)
    /\ sender' = [sender EXCEPT !.pc = "post", !.sent = Append(@, sender.msgText)]
    /\ UNCHANGED <<osfs, sem_sender, sem_receiver, receiver, input_file>>

\* "sem_post(sem_sender)": back to fgets, or on to "return 0" after the exit
\* message.
SenderPost ==
    /\ sender.pc = "post"
    /\ sem_sender' = sem_sender + 1
    /\ sender' = [sender EXCEPT !.pc = IF sender.eof THEN "done" ELSE "fgets"]
    /\ UNCHANGED <<osfs, sem_receiver, mailbox, receiver, input_file>>

\* "sem_wait(sem_sender)"
ReceiverWait ==
    /\ receiver.pc = "wait"
    /\ sem_sender > 0
    /\ sem_sender' = sem_sender - 1
    /\ receiver' = [receiver EXCEPT !.pc = "receive"]
    /\ UNCHANGED <<osfs, sem_receiver, mailbox, sender, input_file>>

\* msgrcv, which waits for a message, or strcpy out of the segment.
ReceiverReceive ==
    /\ receiver.pc = "receive"
    /\ mailbox.flag = MSG_PASSING => mailbox.msq # << >>
    /\ mailbox' = Taken(mailbox)
    /\ receiver' = [receiver EXCEPT !.pc = "check", !.msgText = Text(mailbox),
                                    !.got = Append(@, Text(mailbox))]
    /\ UNCHANGED <<osfs, sem_sender, sem_receiver, sender, input_file>>

\* 'if (strcmp(message.msgText, "exit") == 0) break;' and, after the loop,
\* the clean-up and "return 0".
ReceiverCheck ==
    /\ receiver.pc = "check"
    /\ receiver' = [receiver EXCEPT !.pc = IF receiver.msgText = ExitText
                                           THEN "done" ELSE "post"]
    /\ UNCHANGED <<osfs, sem_sender, sem_receiver, mailbox, sender, input_file>>

\* "sem_post(sem_receiver)"
ReceiverPost ==
    /\ receiver.pc = "post"
    /\ sem_receiver' = sem_receiver + 1
    /\ receiver' = [receiver EXCEPT !.pc = "wait"]
    /\ UNCHANGED <<osfs, sem_sender, mailbox, sender, input_file>>

SenderStep == SenderFgets \/ SenderWait \/ SenderSend \/ SenderPost
ReceiverStep == ReceiverWait \/ ReceiverReceive \/ ReceiverCheck \/ ReceiverPost

InitHandshake ==
    /\ Mounted
    /\ \E file \in InputFiles, flag \in {MSG_PASSING, SHARED_MEM} : Started(file, flag)

NextHandshake == SenderStep \/ ReceiverStep

\* lab1: a sender and a receiver with the same mechanism, any input file,
\* their steps interleaved in any way.
SpecHandshake == InitHandshake /\ [][NextHandshake]_vars

\* The same with a scheduler that lets a process that can run take its step.
SpecHandshakeFair == SpecHandshake /\ WF_vars(SenderStep) /\ WF_vars(ReceiverStep)

\* ------------------------------------------------------------ properties

\* The inode of the file the last call was made on, as it is now.
LastInode == inode_table[last.ino]

\* A file as create leaves it: no bytes, no blocks.
IsNewFile(osfs_inode) == osfs_inode.i_size = 0 /\ osfs_inode.i_blocks = 0

\* The last call wrote its whole buffer to a file that was new.
WroteNewFile ==
    last.op = "write" /\ IsNewFile(last.pre_inode) /\ last.ret = last.buf.len

\* What a read of the range just written returns.
ReadBack == osfs_read(FS, last.ino, last.ppos, last.buf.len)

\* C1: when a write of a buffer B to a new file (at offset 0, or at any of
\* the sparse offsets) returned len(B), a read of len(B) bytes at the same
\* offset returns len(B) and exactly the bytes of B.
C1_RoundTrip ==
    WroteNewFile => ReadBack.ret = last.buf.len /\ ReadBack.buf = last.buf

\* C1's case: a buffer of N_DIRECT blocks and a byte was written whole at
\* offset 0 of a new file, through the direct range into the indirect one.
C1_Witness ==
    /\ WroteNewFile
    /\ last.ppos = 0
    /\ last.buf.len = OSFS_N_DIRECT * BLOCK_SIZE + 1
    /\ LastInode.i_block[OSFS_N_DIRECT] # 0
    /\ ReadBack.buf = last.buf

\* C2: nr_free_blocks is the number of zero bits of the block bitmap, in
\* every state reached by create, write, read and free_inode_blocks.
C2_FreeBlocksCount == nr_free_blocks = DATA_BLOCK_COUNT - Cardinality(block_bitmap)

\* C2's case: free_inode_blocks has given blocks back.
C2_Witness ==
    /\ last.op = "free_inode_blocks"
    /\ nr_free_blocks > last.pre_nr_free_blocks
    /\ last.pre_block_bitmap # block_bitmap

\* C3: nr_free_inodes is the number of zero bits of the inode bitmap, in
\* every state reached by creates.
C3_FreeInodesCount == nr_free_inodes = INODE_COUNT - Cardinality(inode_bitmap)

\* C4: right after mount the root inode is number 1 and its bit is set, the
\* root directory has no entry and size 0, nr_free_inodes is inode_count - 1,
\* nr_free_blocks is block_count and the block bitmap is empty.
C4_AfterMount ==
    last.op = "mount" =>
        /\ ROOT_INODE = 1
        /\ inode_table[ROOT_INODE].i_ino = 1
        /\ ROOT_INODE \in inode_bitmap
        /\ inode_table[ROOT_INODE].i_size = 0
        /\ DirEntryCount(inode_table[ROOT_INODE]) = 0
        /\ nr_free_inodes = INODE_COUNT - 1
        /\ nr_free_blocks = DATA_BLOCK_COUNT
        /\ block_bitmap = {}

\* C4's case: the mounted instance, before any call.
C4_Witness ==
    /\ last.op = "mount"
    /\ nops = 0
    /\ inode_table[ROOT_INODE].i_mode = S_IFDIR
    /\ inode_table[ROOT_INODE].i_links_count = 2

\* An inode number osfs_get_free_inode can hand out is clear in bitmap.
HasFreeInode(bitmap) == \E ino \in 1..(INODE_COUNT - 1) : ino \notin bitmap

\* C5: in a sequence of creates with pairwise distinct names on a fresh
\* instance, a create returns 0 when the directory holds fewer than
\* MAX_DIR_ENTRIES entries and an inode number is clear; with the directory
\* at capacity and an inode clear it fails with -ENOSPC from the
\* directory-full test; with no inode clear it fails with -ENOSPC from the
\* inode allocator.
C5_CreateCapacity ==
    last.op = "create" =>
        /\ (last.pre_count < MAX_DIR_ENTRIES /\ HasFreeInode(last.pre_inode_bitmap))
              => last.ret = 0 /\ last.ino \in inode_bitmap \ last.pre_inode_bitmap
        /\ (last.pre_count >= MAX_DIR_ENTRIES /\ HasFreeInode(last.pre_inode_bitmap))
              => last.ret = -ENOSPC /\ last.err = "parent directory is full"
        /\ ~HasFreeInode(last.pre_inode_bitmap)
              => last.ret = -ENOSPC
                    /\ last.err \in {"no free inode available", "nr_free_inodes is 0"}

\* C5's case: the directory is full and a create has found no inode clear.
C5_Witness ==
    /\ last.op = "create"
    /\ ~HasFreeInode(last.pre_inode_bitmap)
    /\ last.ret = -ENOSPC
    /\ DirEntryCount(inode_table[ROOT_INODE]) = MAX_DIR_ENTRIES

\* C6: a create of a name the directory already holds returns -EEXIST and
\* leaves nr_free_inodes and the inode bitmap as they were.
C6_DuplicateCreate ==
    (last.op = "create" /\ last.pre_exists) =>
        /\ last.ret = -EEXIST
        /\ nr_free_inodes = last.pre_nr_free_inodes
        /\ inode_bitmap = last.pre_inode_bitmap

\* The creates that returned 0 for name.
CreatedAs(name) == {i \in DOMAIN created : created[i][1] = name}

\* C7: a lookup of a name that a create returned 0 for gives the inode number
\* that create allocated, whatever creates, reads and writes came in between;
\* a lookup of a name never created finds nothing (a negative dentry, ret 0).
C7_LookupStable ==
    last.op = "lookup" =>
        /\ \A i \in CreatedAs(last.name) : last.found /\ last.ino = created[i][2]
        /\ CreatedAs(last.name) = {} => ~last.found /\ last.ret = 0

\* C7's case: a name is found that was created before another one.
C7_Witness ==
    /\ last.op = "lookup"
    /\ last.found
    /\ Len(created) = 2
    /\ created[1][1] = last.name
    /\ last.ino = created[1][2]

\* C8: getdents from cursor 0 into a buffer that takes the whole directory
\* emits ".", "..", and then each stored entry once, in the order of the
\* creates, and leaves the cursor at entry count + 2; getdents from that
\* cursor emits nothing.
C8_IterateOrder ==
    last.op = "iterate" =>
        /\ (last.pos = 0 /\ last.room >= Len(created) + 2) =>
              /\ last.ret = 0
              /\ last.out = << <<Dot, ROOT_INODE>>, <<DotDot, ROOT_INODE>> >> \o created
              /\ last.new_pos = DirEntryCount(inode_table[ROOT_INODE]) + 2
        /\ last.pos = DirEntryCount(inode_table[ROOT_INODE]) + 2 =>
              /\ last.ret = 0
              /\ last.out = << >>
              /\ last.new_pos = last.pos

\* C8's case: a full directory was listed from cursor 0.
C8_Witness ==
    /\ last.op = "iterate"
    /\ last.pos = 0
    /\ Len(created) = MAX_DIR_ENTRIES
    /\ Len(last.out) = MAX_DIR_ENTRIES + 2
    /\ last.new_pos = MAX_DIR_ENTRIES + 2

\* The logical block of byte p of the last read's buffer is allocated.
ReadByteMapped(p) ==
    osfs_get_block(FS, last.ino, LogicalBlock(last.ppos + p), FALSE).phys_block # 0

\* C9: a read whose range lies within the file's size returns the requested
\* length, and every byte of it that comes from a logical block without a
\* data block is 0, also when the file has no block at all.
C9_SparseRead ==
    (last.op = "read" /\ last.ppos + last.len <= last.pre_inode.i_size) =>
        /\ last.ret = last.len
        /\ \A p \in DOMAIN last.buf.nz : ReadByteMapped(p)

\* The last call wrote its whole buffer.
WroteAll == last.op = "write" /\ last.ret = last.buf.len

\* The last write began at the end of a file that fills the direct range and
\* has no index block.
AtDirectEnd ==
    /\ last.pre_inode.i_size = OSFS_N_DIRECT * BLOCK_SIZE
    /\ last.pre_inode.i_blocks = OSFS_N_DIRECT
    /\ last.pre_inode.i_block[OSFS_N_DIRECT] = 0
    /\ last.ppos = OSFS_N_DIRECT * BLOCK_SIZE

\* C10: a write from offset 0 of a new file that ends at or before
\* N_DIRECT * BLOCK_SIZE allocates one direct block per block written and no
\* index block; a write of one byte at N_DIRECT * BLOCK_SIZE to a file that
\* fills the direct range allocates the indirect index block and one data
\* block, and nr_free_blocks goes down by 2.
C10_DirectIndirectBoundary ==
    /\ (WroteAll /\ IsNewFile(last.pre_inode) /\ last.ppos = 0
            /\ last.buf.len <= OSFS_N_DIRECT * BLOCK_SIZE) =>
          /\ LastInode.i_block[OSFS_N_DIRECT] = 0
          /\ LastInode.i_block[OSFS_N_DIRECT + 1] = 0
          /\ LastInode.i_blocks = (last.buf.len + BLOCK_SIZE - 1) \div BLOCK_SIZE
          /\ nr_free_blocks = last.pre_nr_free_blocks - LastInode.i_blocks
          /\ {LastInode.i_block[k] : k \in 0..(LastInode.i_blocks - 1)}
                = block_bitmap \ last.pre_block_bitmap
    /\ (WroteAll /\ AtDirectEnd /\ last.buf.len = 1) =>
          /\ nr_free_blocks = last.pre_nr_free_blocks - 2
          /\ LastInode.i_blocks = OSFS_N_DIRECT + 2
          /\ block_bitmap \ last.pre_block_bitmap
                = {LastInode.i_block[OSFS_N_DIRECT],
                   MemWord(data_blocks, BlockAddr(LastInode.i_block[OSFS_N_DIRECT]))}
          /\ Cardinality(block_bitmap \ last.pre_block_bitmap) = 2

\* C10's case: the whole direct range was written, and then one byte more.
C10_Witness ==
    /\ WroteAll
    /\ AtDirectEnd
    /\ last.buf.len = 1
    /\ \A k \in 0..(OSFS_N_DIRECT - 1) : last.pre_inode.i_block[k] # 0
    /\ LastInode.i_size = OSFS_N_DIRECT * BLOCK_SIZE + 1

\* What osfs_free_inode_blocks may touch: the block bitmap, nr_free_blocks and
\* the inode's pointers.
FreeView(fs, ino) ==
    [block_bitmap |-> fs.block_bitmap, nr_free_blocks |-> fs.nr_free_blocks,
     i_block |-> fs.inode_table[ino].i_block]

\* Every pointer of the inode is 0.
NoPointers(osfs_inode) == \A k \in 0..(OSFS_N_BLOCKS - 1) : osfs_inode.i_block[k] = 0

\* C11: after osfs_free_inode_blocks on an inode, a second call on the same
\* inode changes neither the block bitmap nor nr_free_blocks nor the inode's
\* pointers; a call on an inode whose pointers are all 0 changes none of them.
C11_FreeIdempotent ==
    last.op = "free_inode_blocks" =>
        /\ FreeView(osfs_free_inode_blocks(FS, last.ino), last.ino) = FreeView(FS, last.ino)
        /\ NoPointers(LastInode)
        /\ NoPointers(last.pre_inode) =>
              /\ block_bitmap = last.pre_block_bitmap
              /\ nr_free_blocks = last.pre_nr_free_blocks
              /\ LastInode.i_block = last.pre_inode.i_block

\* C11's case: the blocks of a file that reached into the indirect range,
\* index block included, were freed, and a second call finds nothing to free.
C11_Witness ==
    /\ last.op = "free_inode_blocks"
    /\ last.pre_inode.i_block[OSFS_N_DIRECT] # 0
    /\ Cardinality(last.pre_block_bitmap \ block_bitmap) = OSFS_N_DIRECT + 2
    /\ osfs_free_inode_blocks(FS, last.ino).nr_free_blocks = nr_free_blocks

\* The last write stopped before the end of its buffer.
WriteFailed == last.op = "write" /\ last.ret # last.buf.len

\* What the resolver returns for the logical block at which the last write
\* stopped.
StoppedAt == osfs_get_block(FS, last.ino, LogicalBlock(last.new_ppos), TRUE).ret

\* The first n bytes of a user buffer.
Prefix(buf, n) == Buffer(n, [p \in {q \in DOMAIN buf.nz : q < n} |-> buf.nz[p]])

\* C12: a write that stops before the end of its buffer stops at a block the
\* resolver has no block for (-ENOSPC) or cannot address (-EFBIG).  When bytes
\* were copied it returns their number: the position has advanced by it to
\* the start of that block and the file holds that many bytes of the buffer.
\* When none was copied it returns the resolver's error, and the position and
\* the file's size are as before.
C12_WriteFailure ==
    WriteFailed =>
        /\ StoppedAt \in {-ENOSPC, -EFBIG}
        /\ last.ret > 0 =>
              /\ last.ret < last.buf.len
              /\ last.new_ppos = last.ppos + last.ret
              /\ BlockOffset(last.new_ppos) = 0
              /\ osfs_read(FS, last.ino, last.ppos, last.ret).buf = Prefix(last.buf, last.ret)
        /\ last.ret <= 0 =>
              /\ last.ret = StoppedAt
              /\ last.new_ppos = last.ppos
              /\ LastInode.i_size = last.pre_inode.i_size

\* C12's case: a write ran out of data blocks after it had copied some bytes.
C12_Witness ==
    /\ WriteFailed
    /\ last.ret > 0
    /\ StoppedAt = -ENOSPC
    /\ nr_free_blocks = 0
    /\ LastInode.i_size = last.ppos + last.ret

\* max(0, n)
AtLeastZero(n) == IF n < 0 THEN 0 ELSE n

\* C13: a read returns at most max(0, i_size - offset) bytes, returns 0 when
\* the offset is at or past i_size or the file has no block, and advances the
\* position by exactly what it returns.
C13_ReadCount ==
    last.op = "read" =>
        /\ last.ret >= 0
        /\ last.ret <= AtLeastZero(last.pre_inode.i_size - last.ppos)
        /\ last.ret <= last.len
        /\ (last.ppos >= last.pre_inode.i_size \/ last.pre_inode.i_blocks = 0) => last.ret = 0
        /\ last.new_ppos = last.ppos + last.ret
        /\ last.buf.len = last.ret

\* C13's case: a read that reached over the end of the file was cut to the
\* bytes the file has from the offset on.
C13_Witness ==
    /\ last.op = "read"
    /\ last.ppos + last.len > last.pre_inode.i_size
    /\ last.ret = last.pre_inode.i_size - last.ppos
    /\ last.ret > 0
    /\ last.new_ppos = last.pre_inode.i_size

\* The indexes of the root directory's live entries.
RootEntries == 0..(DirEntryCount(inode_table[ROOT_INODE]) - 1)

\* The filename of the root directory's entry i.
RootEntryName(i) ==
    EntryName(data_blocks, DirEntryAddr(DirBlockAddr(inode_table[ROOT_INODE]), i))

\* C14: the filenames of the directory's live entries are pairwise distinct.
C14_UniqueNames ==
    \A i, j \in RootEntries : i # j => RootEntryName(i) # RootEntryName(j)

\* C14's case: the directory holds two entries, and a create of a name one of
\* them has was turned away.
C14_Witness ==
    /\ Cardinality(RootEntries) = 2
    /\ last.op = "create"
    /\ last.ret = -EEXIST
    /\ \E i \in RootEntries : RootEntryName(i) = last.name

\* The live entries of directory dir, in stored order: <<filename, inode_no>>.
DirListing(fs, dir) ==
    [i \in 1..DirEntryCount(fs.inode_table[dir]) |->
        <<EntryName(fs.data_blocks, DirEntryAddr(DirBlockAddr(fs.inode_table[dir]), i - 1)),
          EntryIno(fs.data_blocks, DirEntryAddr(DirBlockAddr(fs.inode_table[dir]), i - 1))>>]

\* C15: the directory's size is the record size times the number of creates
\* that returned 0 in it, a multiple of the record size, and at most the
\* capacity BLOCK_SIZE / record size times the record size; a create that
\* failed has left the directory's size and entries as they were.
C15_DirSize ==
    /\ inode_table[ROOT_INODE].i_size = SIZEOF_DIR_ENTRY * Len(created)
    /\ inode_table[ROOT_INODE].i_size % SIZEOF_DIR_ENTRY = 0
    /\ inode_table[ROOT_INODE].i_size <= (BLOCK_SIZE \div SIZEOF_DIR_ENTRY) * SIZEOF_DIR_ENTRY
    /\ MAX_DIR_ENTRIES = BLOCK_SIZE \div SIZEOF_DIR_ENTRY
    /\ (last.op = "create" /\ last.ret # 0) =>
          /\ inode_table[ROOT_INODE].i_size = last.pre_fs.inode_table[ROOT_INODE].i_size
          /\ DirListing(FS, ROOT_INODE) = DirListing(last.pre_fs, ROOT_INODE)

\* C15's case: a create failed on the full directory, which still holds the
\* entries of the creates that returned 0.
C15_Witness ==
    /\ last.op = "create"
    /\ last.ret # 0
    /\ last.err = "parent directory is full"
    /\ inode_table[ROOT_INODE].i_size = MAX_DIR_ENTRIES * SIZEOF_DIR_ENTRY
    /\ DirListing(FS, ROOT_INODE) = created

\* The pointers of an inode that name a block: every non-zero slot, and slot 0
\* of a directory that has its block (i_blocks # 0).
LivePointers(osfs_inode) ==
    {osfs_inode.i_block[k] : k \in {j \in 0..(OSFS_N_BLOCKS - 1) : osfs_inode.i_block[j] # 0}}
        \cup (IF osfs_inode.i_mode = S_IFDIR /\ osfs_inode.i_blocks # 0
               THEN {osfs_inode.i_block[0]} ELSE {})

\* C16: a pointer of 0 always means "no block": block 0 is never handed out,
\* and no inode in use has block 0 as a live block.
C16_ZeroIsUnallocated ==
    /\ 0 \notin block_bitmap
    /\ \A ino \in inode_bitmap : 0 \notin LivePointers(inode_table[ino])

\* C17: for every inode in use and every logical block at or beyond
\* N_DIRECT + ADDR_PER_BLOCK + ADDR_PER_BLOCK^2, the resolver returns -EFBIG
\* and leaves the filesystem (bitmap, nr_free_blocks, pointers, i_blocks) as
\* it is, with create set and with create clear; a write that starts there
\* returns -EFBIG and allocates nothing.
C17_FileTooBig ==
    /\ \A ino \in inode_bitmap, block \in TooBigBlocks, create \in BOOLEAN :
          /\ osfs_get_block(FS, ino, block, create).ret = -EFBIG
          /\ osfs_get_block(FS, ino, block, create).fs = FS
    /\ (last.op = "write" /\ LogicalBlock(last.ppos) >= FirstTooBig /\ last.buf.len > 0) =>
          /\ last.ret = -EFBIG
          /\ block_bitmap = last.pre_block_bitmap
          /\ nr_free_blocks = last.pre_nr_free_blocks
          /\ LastInode = last.pre_inode

\* C17's case: a write at the first byte beyond the range to a file that has
\* blocks was refused.
C17_Witness ==
    /\ last.op = "write"
    /\ last.ppos = FirstTooBig * BLOCK_SIZE
    /\ last.buf.len > 0
    /\ last.ret = -EFBIG
    /\ last.pre_inode.i_blocks > 0
    /\ osfs_get_block(FS, last.ino, FirstTooBig, TRUE).fs = FS

\* C18: a create with a name of more than MAX_FILENAME_LEN bytes returns
\* -ENAMETOOLONG and changes nothing: the inode bitmap, nr_free_inodes,
\* nr_free_blocks, the directory and everything else are as before.
C18_NameTooLong ==
    (last.op = "create" /\ Len(last.name) > MAX_FILENAME_LEN) =>
        /\ last.ret = -ENAMETOOLONG
        /\ inode_bitmap = last.pre_inode_bitmap
        /\ nr_free_inodes = last.pre_nr_free_inodes
        /\ nr_free_blocks = last.pre_nr_free_blocks
        /\ DirListing(FS, ROOT_INODE) = DirListing(last.pre_fs, ROOT_INODE)
        /\ FS = last.pre_fs

\* C18's case: a name of MAX_FILENAME_LEN + 1 bytes was refused in a
\* directory that holds an entry.
C18_Witness ==
    /\ last.op = "create"
    /\ Len(last.name) = MAX_FILENAME_LEN + 1
    /\ last.ret = -ENAMETOOLONG
    /\ Len(created) > 0
    /\ FS = last.pre_fs

\* The clear bits of the block bitmap, and of the inode bitmap from 1 on.
ClearBlocks(fs) == {b \in 0..(DATA_BLOCK_COUNT - 1) : b \notin fs.block_bitmap}
ClearInodes(fs) == {i \in 1..(INODE_COUNT - 1) : i \notin fs.inode_bitmap}

\* The allocation a of a block from fs took the lowest clear bit: it returns
\* that bit, sets it, takes one off nr_free_blocks and changes nothing else.
TookLowestBlock(fs, a) ==
    /\ a.ret = 0
    /\ a.block_no \in ClearBlocks(fs)
    /\ \A b \in ClearBlocks(fs) : a.block_no <= b
    /\ a.fs = [fs EXCEPT !.block_bitmap = fs.block_bitmap \cup {a.block_no},
                          !.nr_free_blocks = U32Dec(fs.nr_free_blocks)]
    /\ Cardinality(a.fs.block_bitmap) = Cardinality(fs.block_bitmap) + 1

\* The same for the allocation g of an inode number.
TookLowestInode(fs, g) ==
    /\ g.ret \in ClearInodes(fs)
    /\ \A i \in ClearInodes(fs) : g.ret <= i
    /\ g.fs = [fs EXCEPT !.inode_bitmap = fs.inode_bitmap \cup {g.ret},
                          !.nr_free_inodes = U32Dec(fs.nr_free_inodes)]
    /\ Cardinality(g.fs.inode_bitmap) = Cardinality(fs.inode_bitmap) + 1

\* C19: wherever a block is clear, osfs_alloc_data_block returns the lowest
\* clear block, sets that bit and no other and takes exactly one off
\* nr_free_blocks; wherever an inode number from 1 on is clear,
\* osfs_get_free_inode does the same with the inode bitmap and
\* nr_free_inodes.  A write that took one block took the lowest clear one.
C19_LowestClearBit ==
    /\ ClearBlocks(FS) # {} => TookLowestBlock(FS, osfs_alloc_data_block(FS))
    /\ ClearInodes(FS) # {} => TookLowestInode(FS, osfs_get_free_inode(FS))
    /\ (last.op = "write" /\ Cardinality(block_bitmap \ last.pre_block_bitmap) = 1) =>
          \A b \in 0..(DATA_BLOCK_COUNT - 1) :
              b \notin last.pre_block_bitmap =>
                  \E new \in block_bitmap \ last.pre_block_bitmap : new <= b

\* C19's case: a write took a block below blocks that are in use, one that
\* osfs_free_inode_blocks had given back.
C19_Witness ==
    /\ last.op = "write"
    /\ Cardinality(block_bitmap \ last.pre_block_bitmap) = 1
    /\ \E new \in block_bitmap \ last.pre_block_bitmap :
          /\ \E b \in last.pre_block_bitmap : new < b
          /\ \A b \in 0..(new - 1) : b \in last.pre_block_bitmap

\* C20: with every data block in use osfs_alloc_data_block returns -ENOSPC
\* and leaves the filesystem as it is, and a write leaves the block bitmap
\* and nr_free_blocks as they are; with every inode number from 1 on in use
\* osfs_get_free_inode and create return -ENOSPC and leave the filesystem
\* as it is.  This holds in every state, so for every later attempt; once
\* osfs_free_inode_blocks has given blocks back, a block is allocated again.
C20_Exhaustion ==
    /\ ClearBlocks(FS) = {} =>
          /\ osfs_alloc_data_block(FS).ret = -ENOSPC
          /\ osfs_alloc_data_block(FS).fs = FS
    /\ (last.op = "write" /\ last.pre_block_bitmap = 0..(DATA_BLOCK_COUNT - 1)) =>
          /\ block_bitmap = last.pre_block_bitmap
          /\ nr_free_blocks = last.pre_nr_free_blocks
          /\ last.ret < 0 => last.ret = -ENOSPC \/ last.ret = -EFBIG
    /\ ClearInodes(FS) = {} =>
          /\ osfs_get_free_inode(FS).ret = -ENOSPC
          /\ osfs_get_free_inode(FS).fs = FS
          /\ osfs_create(FS, ROOT_INODE, FreshName(nops), S_IFREG).ret = -ENOSPC
          /\ osfs_create(FS, ROOT_INODE, FreshName(nops), S_IFREG).fs = FS
    /\ (last.op = "create" /\ ClearInodes(last.pre_fs) = {}) =>
          /\ last.ret = -ENOSPC
          /\ last.err = "no free inode available"
          /\ FS = last.pre_fs
    /\ (last.op = "free_inode_blocks" /\ block_bitmap # last.pre_block_bitmap) =>
          osfs_alloc_data_block(FS).ret = 0

\* C20's case: with no inode number and no data block left, one more create
\* was refused, after the one that first found the inode numbers used up.
C20_Witness ==
    /\ last.op = "create"
    /\ nops > MaxCreates
    /\ ClearInodes(last.pre_fs) = {}
    /\ ClearBlocks(FS) = {}
    /\ last.ret = -ENOSPC
    /\ osfs_alloc_data_block(FS).ret = -ENOSPC

\* Everything a listing of the root directory holds: ".", "..", the entries.
FullListing ==
    << <<Dot, ROOT_INODE>>, <<DotDot, ROOT_INODE>> >> \o DirListing(FS, ROOT_INODE)

\* C21: getdents from any cursor c emits the elements of [".", "..",
\* entry_0, ..., entry_{n-1}] from position c on, in order, as many as the
\* caller's buffer takes, and nothing else; also from c = 1, where ".." comes
\* first and no entry outside 0..n-1 is read.
C21_Restartable ==
    last.op = "iterate" =>
        last.out = SubSeq(FullListing, last.pos + 1,
                          Min(Len(FullListing), last.pos + last.room))

\* The addresses of the data area whose byte differs between fs and now.
ChangedBytes(fs) ==
    {a \in DOMAIN fs.data_blocks \cup DOMAIN data_blocks :
        MemByte(fs.data_blocks, a) # MemByte(data_blocks, a)}

\* The addresses of physical block b.
BlockRange(b) == BlockAddr(b)..(BlockAddr(b) + BLOCK_SIZE - 1)

\* C22: in the basic variant every byte a write changes lies in the file's
\* one data block, no file's size exceeds BLOCK_SIZE, and a write that
\* starts at or beyond BLOCK_SIZE writes 0 bytes: it returns 0 and changes
\* neither the data nor the size.
C22_BasicOneBlock ==
    /\ \A ino \in inode_bitmap \ {ROOT_INODE} : inode_table[ino].i_size <= BLOCK_SIZE
    /\ last.op = "write" =>
          /\ ChangedBytes(last.pre_fs) \subseteq BlockRange(LastInode.i_block[0])
          /\ last.ppos >= BLOCK_SIZE =>
                /\ last.ret = 0
                /\ ChangedBytes(last.pre_fs) = {}
                /\ LastInode.i_size = last.pre_fs.inode_table[last.ino].i_size

\* The pointer slots that name a block, as <<inode, path to the slot, block>>:
\* the non-zero words of the index block b, reached from the inode by path.
IndexRefs(ino, path, b) ==
    {<<ino, Append(path, i), MemWord(data_blocks, BlockAddr(b) + SIZEOF_U32 * i)>> :
        i \in IndexEntries(data_blocks, BlockAddr(b))}

\* The slots of the inode itself: every non-zero one, and slot 0 of a
\* directory that has its block.
SlotRefs(ino) ==
    {<<ino, <<k>>, inode_table[ino].i_block[k]>> :
        k \in {j \in 0..(OSFS_N_BLOCKS - 1) :
                  \/ inode_table[ino].i_block[j] # 0
                  \/ j = 0 /\ inode_table[ino].i_mode = S_IFDIR /\ inode_table[ino].i_blocks # 0}}

\* The words of the single-indirect block and of the first-level block.
FirstLevelRefs(ino) ==
    UNION {IndexRefs(ino, <<k>>, inode_table[ino].i_block[k]) :
              k \in {j \in {OSFS_N_DIRECT, OSFS_N_DIRECT + 1} : inode_table[ino].i_block[j] # 0}}

\* The words of the second-level blocks.
SecondLevelRefs(ino) ==
    UNION {IndexRefs(ino, r[2], r[3]) :
              r \in {x \in FirstLevelRefs(ino) : x[2][1] = OSFS_N_DIRECT + 1}}

InodeRefs(ino) == SlotRefs(ino) \cup FirstLevelRefs(ino) \cup SecondLevelRefs(ino)

References == UNION {InodeRefs(ino) : ino \in inode_bitmap}

\* The slots refs name the blocks whose bit is set, and no two of them name
\* the same block.
NameEachOnce(refs) ==
    /\ {r[3] : r \in refs} = block_bitmap
    /\ Cardinality(refs) = Cardinality(block_bitmap)

\* C23: every block whose bit is set is named by exactly one pointer slot (a
\* slot of an inode or a word of an index block) of one inode, and every block
\* a slot names has its bit set; so no index block is shared or is also a
\* data block.
C23_BlockExclusive == NameEachOnce(References)

\* Two files each hold a data block under a second-level index block.
C23_Witness ==
    /\ last.op = "write"
    /\ \E r1, r2 \in References : r1[1] # r2[1] /\ Len(r1[2]) = 3 /\ Len(r2[2]) = 3

\* C24: the i_blocks of every regular file is the number of blocks reachable
\* from its pointers, data blocks and index blocks of both levels alike, also
\* after a write that failed part-way.
C24_BlockCount ==
    \A ino \in inode_bitmap :
        inode_table[ino].i_mode = S_IFREG =>
            inode_table[ino].i_blocks = Cardinality(InodeRefs(ino))

\* A write ran out of blocks after it had allocated index blocks.
C24_Witness ==
    /\ last.op = "write"
    /\ last.ret = -ENOSPC
    /\ LastInode.i_blocks > last.pre_inode.i_blocks
    /\ \E r \in InodeRefs(last.ino) : Len(r[2]) = 2

\* The blocks reachable from the inode.
InodeBlocks(ino) == {r[3] : r \in InodeRefs(ino)}

\* What osfs_free_inode_blocks is to leave of the inode ino of this state in
\* the filesystem after: its blocks free, nr_free_blocks raised by its
\* i_blocks, no pointer and no block counted.
Freed(after, ino) ==
    /\ InodeBlocks(ino) \cap after.block_bitmap = {}
    /\ after.nr_free_blocks = nr_free_blocks + inode_table[ino].i_blocks
    /\ NoPointers(after.inode_table[ino])
    /\ after.inode_table[ino].i_blocks = 0

\* C25: osfs_free_inode_blocks on an inode whose i_blocks was k clears the bit
\* of every block reachable from it, raises nr_free_blocks by k and leaves
\* the inode with no pointer and i_blocks 0, for a directory as for a regular
\* file.
C25_FreeAll ==
    /\ \A ino \in inode_bitmap : Freed(osfs_free_inode_blocks(FS, ino), ino)
    /\ last.op = "free_inode_blocks" =>
          /\ nr_free_blocks = last.pre_nr_free_blocks + last.pre_inode.i_blocks
          /\ NoPointers(LastInode)
          /\ LastInode.i_blocks = 0

\* The logical blocks the last write went through: those of its byte range.
Touched ==
    LogicalBlock(last.ppos)..LogicalBlock(last.ppos + last.buf.len - 1)

\* Logical blocks at both ends of the two index ranges.
ProbeBlocks ==
    {FirstIndirect, FirstIndirect + 1, FirstDIndirect - 1, FirstDIndirect, FirstDIndirect + 1,
     FirstDIndirect + OSFS_ADDR_PER_BLOCK, LastBlock - 1, LastBlock}

\* The index blocks of the inode as [path, block]: the single-indirect block
\* at <<N_DIRECT>>, the first-level block at <<N_DIRECT + 1>>, the second-level
\* block of outer index o at <<N_DIRECT + 1, o>>.
IndexBlocksOf(ino) ==
    {[path |-> r[2], block |-> r[3]] :
        r \in {x \in SlotRefs(ino) \cup FirstLevelRefs(ino) :
                  x[2][1] = OSFS_N_DIRECT + 1 \/ x[2] = <<OSFS_N_DIRECT>>}}

\* The word of the index block at path that logical block b goes through, or
\* -1 when b does not go through that block.
WordOf(path, b) ==
    IF path = <<OSFS_N_DIRECT>>
    THEN IF b >= FirstIndirect /\ b < FirstDIndirect THEN b - FirstIndirect ELSE -1
    ELSE IF b < FirstDIndirect \/ b >= FirstTooBig THEN -1
    ELSE IF Len(path) = 1 THEN (b - FirstDIndirect) \div OSFS_ADDR_PER_BLOCK
    ELSE IF (b - FirstDIndirect) \div OSFS_ADDR_PER_BLOCK = path[2]
    THEN (b - FirstDIndirect) % OSFS_ADDR_PER_BLOCK
    ELSE -1

\* What osfs_read takes for a hole: an error of the resolver, or block 0.
IsHole(r) == r.ret # 0 \/ r.phys_block = 0

\* The index blocks the last write allocated.
NewIndexBlocks == {x \in IndexBlocksOf(last.ino) : x.block \notin last.pre_fs.block_bitmap}

\* C26: of an index block that a write allocated, every word other than those
\* the write went through is 0, whatever the physical block held before, and
\* the resolver without create finds a hole at every other logical block
\* under that index block and changes nothing.
C26_IndexBlockZeroed ==
    last.op = "write" =>
        \A x \in NewIndexBlocks :
            /\ IndexEntries(data_blocks, BlockAddr(x.block))
                   \subseteq {WordOf(x.path, b) : b \in Touched}
            /\ \A b \in ProbeBlocks \ Touched :
                   WordOf(x.path, b) # -1 =>
                       /\ IsHole(osfs_get_block(FS, last.ino, b, FALSE))
                       /\ osfs_get_block(FS, last.ino, b, FALSE).fs = FS

\* A write allocated an index block on a physical block that held non-zero
\* bytes of a freed file, in other words than the one the write went through.
C26_Witness ==
    /\ last.op = "write"
    /\ \E x \in NewIndexBlocks :
          ~(IndexEntries(last.pre_fs.data_blocks, BlockAddr(x.block))
               \subseteq {WordOf(x.path, b) : b \in Touched})

\* The logical block of the last write within the double-indirect range, and
\* its outer and inner index.
LastDBlock == LogicalBlock(last.ppos) - FirstDIndirect
LastOuter == LastDBlock \div OSFS_ADDR_PER_BLOCK
LastInner == LastDBlock % OSFS_ADDR_PER_BLOCK

\* Word idx of index block b in the memory mem; 0 when there is no block b.
WordUnder(mem, b, idx) == IF b = 0 THEN 0 ELSE MemWord(mem, BlockAddr(b) + SIZEOF_U32 * idx)

\* Before the last write: the file's first-level block, the second-level
\* block of the write's outer index, the data block of its inner index.
PreTop == last.pre_inode.i_block[OSFS_N_DIRECT + 1]
PreSecond == WordUnder(last.pre_fs.data_blocks, PreTop, LastOuter)
PreData == WordUnder(last.pre_fs.data_blocks, PreSecond, LastInner)

\* The same after it.
PostTop == LastInode.i_block[OSFS_N_DIRECT + 1]
PostSecond == WordUnder(data_blocks, PostTop, LastOuter)
PostData == WordUnder(data_blocks, PostSecond, LastInner)

\* The blocks the last write allocated.
NewBlocks == block_bitmap \ last.pre_fs.block_bitmap

\* The last write resolved one block of the double-indirect range.
ResolvedDIndirect ==
    /\ last.op = "write"
    /\ last.buf.len = 1
    /\ last.ret = 1
    /\ LastDBlock >= 0
    /\ LogicalBlock(last.ppos) < FirstTooBig

\* What the resolver without create finds for logical block b of inode ino.
Resolved(ino, b) == osfs_get_block(FS, ino, b, FALSE)

\* C27: the first resolve with create of a block of the double-indirect range
\* allocates three blocks, the first-level index block, the second-level one
\* at the outer index and the data block at the inner index; a later one of
\* another block allocates one block under the same outer index and two
\* under another; and distinct logical blocks resolve to distinct physical
\* blocks.
C27_DoubleIndirect ==
    /\ ResolvedDIndirect =>
          /\ NewBlocks = {PostTop, PostSecond, PostData} \ last.pre_fs.block_bitmap
          /\ PreTop = 0 => Cardinality(NewBlocks) = 3
          /\ (PreSecond # 0 /\ PreData = 0) => Cardinality(NewBlocks) = 1
          /\ (PreTop # 0 /\ PreSecond = 0) => Cardinality(NewBlocks) = 2
    /\ \A ino \in inode_bitmap, b1, b2 \in ProbeBlocks :
          (b1 # b2 /\ ~IsHole(Resolved(ino, b1)) /\ ~IsHole(Resolved(ino, b2)))
              => Resolved(ino, b1).phys_block # Resolved(ino, b2).phys_block

\* A file with two blocks under one second-level index block got a block
\* under another.
C27_Witness ==
    /\ ResolvedDIndirect
    /\ PreTop # 0 /\ PreSecond = 0
    /\ \E r1, r2 \in InodeRefs(last.ino) :
          Len(r1[2]) = 3 /\ Len(r2[2]) = 3 /\ r1[2][2] = r2[2][2] /\ r1 # r2

\* The allocator and index state: the bitmaps, the counters, the pointers and
\* i_blocks of every inode, and the words of every index block.
AllocatorView ==
    <<inode_bitmap, block_bitmap, nr_free_inodes, nr_free_blocks,
      [ino \in DOMAIN inode_table |-> <<inode_table[ino].i_block, inode_table[ino].i_blocks>>],
      {r \in References : Len(r[2]) > 1}>>

\* The resolver without create leaves the filesystem as it is, for every
\* inode in use and every probed logical block, in range or not.
ResolveReadOnly ==
    \A ino \in inode_bitmap, b \in ProbeBlocks \cup {0, OSFS_N_DIRECT - 1} \cup TooBigBlocks :
        osfs_get_block(FS, ino, b, FALSE).fs = FS

\* C28: a read, a lookup, a listing and a resolve without create leave the
\* allocator and index state as it was, whether the call succeeds, hits a
\* hole or fails.
C28_ReadOnlyFrame ==
    /\ []ResolveReadOnly
    /\ [][last'.op \in {"read", "lookup", "iterate"} => UNCHANGED AllocatorView]_vars

\* A read went through a hole of a file that has blocks.
C28_Witness ==
    /\ last.op = "read"
    /\ last.ret > 0
    /\ LastInode.i_blocks > 0
    /\ IsHole(Resolved(last.ino, LogicalBlock(last.ppos)))

\* The last operation left file ino with blocks, which it had not before.
GotFirstBlock(ino) ==
    /\ last.pre_fs.inode_table[ino].i_blocks = 0
    /\ inode_table[ino].i_blocks > 0

\* C29: a successful create leaves the new file with size 0, i_blocks 0 and
\* no pointer, and takes one block, the directory's, when the directory had
\* none, and no block otherwise; a file gets its first block only by a
\* successful write to it.
C29_LazyAllocation ==
    /\ (last.op = "create" /\ last.ret = 0) =>
          /\ LastInode.i_mode = S_IFREG
          /\ LastInode.i_size = 0
          /\ LastInode.i_blocks = 0
          /\ NoPointers(LastInode)
          /\ nr_free_blocks =
                 IF last.pre_fs.inode_table[ROOT_INODE].i_blocks = 0
                 THEN last.pre_nr_free_blocks - 1 ELSE last.pre_nr_free_blocks
    /\ last.op \in {"create", "write"} =>
          \A ino \in inode_bitmap \ {ROOT_INODE} :
              GotFirstBlock(ino) => (last.op = "write" /\ last.ino = ino /\ last.ret > 0)

\* The stage of inode ino: 0 unallocated, 1 allocated without blocks,
\* 2 allocated with blocks.
Stage(ino) ==
    IF ino \notin inode_bitmap THEN 0
    ELSE IF inode_table[ino].i_blocks = 0 THEN 1 ELSE 2

\* One step of inode ino: its stage stays or moves one on, its bit stays
\* set, its i_blocks stays positive, and every slot that names a block, in
\* the inode or in its index blocks, names the same block after.
LifecycleStep(ino) ==
    /\ Stage(ino)' \in {Stage(ino), Stage(ino) + 1}
    /\ ino \in inode_bitmap => ino \in inode_bitmap'
    /\ (ino \in inode_bitmap /\ inode_table[ino].i_blocks > 0) => inode_table'[ino].i_blocks > 0
    /\ ino \in inode_bitmap => InodeRefs(ino) \subseteq InodeRefs(ino)'

\* C30: under create, read and write an inode moves only from unallocated to
\* allocated without blocks to allocated with blocks: its bit is never
\* cleared, its i_blocks never returns to 0, and a pointer that is not 0
\* never changes.
C30_Lifecycle ==
    [][last'.op \in {"create", "read", "write"} =>
          \A ino \in 0..(INODE_COUNT - 1) : LifecycleStep(ino)]_vars

\* A file that had blocks got more by a write.
C30_Witness ==
    /\ last.op = "write"
    /\ last.pre_inode.i_blocks > 0
    /\ LastInode.i_blocks > last.pre_inode.i_blocks

\* The longest file the pointers can address, in bytes.
MaxFileSize == FirstTooBig * BLOCK_SIZE

\* C31: after a write that copied at least one byte and ended at position p,
\* the file's size is the larger of its previous size and p; p is at most the
\* longest addressable length, which the 32-bit size holds, so the size never
\* gets smaller.
C31_SizeIsMax ==
    (last.op = "write" /\ last.ret > 0) =>
        /\ last.new_ppos = last.ppos + last.ret
        /\ last.new_ppos <= MaxFileSize
        /\ MaxFileSize <= INT32_MAX
        /\ LastInode.i_size =
               IF last.new_ppos > last.pre_inode.i_size
               THEN last.new_ppos ELSE last.pre_inode.i_size

\* A write ended at the longest addressable length, and one ended below the
\* size the file had.
C31_Witness ==
    /\ last.op = "write"
    /\ last.ret > 0
    /\ \/ last.new_ppos = MaxFileSize /\ LastInode.i_size = MaxFileSize
       \/ last.new_ppos < last.pre_inode.i_size /\ last.pre_inode.i_size = MaxFileSize

\* The allocations that have returned, as <<thread, number of the call>>.
Returned == {a \in Threads \X (1..MaxAllocs) : a[2] <= Len(threads[a[1]].got)}

\* C32: two allocations whose steps interleave are never given the same
\* block, and once the callers are out of the allocator nr_free_blocks is the
\* number of clear bits of the block bitmap.
C32_AllocRace ==
    /\ \A a, b \in Returned :
          a # b => threads[a[1]].got[a[2]] # threads[b[1]].got[b[2]]
    /\ (\A t \in Threads : threads[t].pc \in {"test", "done"}) =>
          nr_free_blocks = DATA_BLOCK_COUNT - Cardinality(block_bitmap)

\* What osfs_lookup answers in the root directory of fs, for every name.
RootLookups(fs) == [n \in Names |-> osfs_lookup(fs, ROOT_INODE, n)]

\* C33: in the basic variant the block of the root directory's entries is
\* never the data block of a file that can be opened, and a write to a file
\* leaves the answer of every lookup in the root directory as it was.
C33_BasicExclusive ==
    /\ \A ino \in OpenFiles :
          inode_table[ino].i_block[0] # inode_table[ROOT_INODE].i_block[0]
    /\ last.op = "write" => RootLookups(FS) = RootLookups(last.pre_fs)

\* C34: a write that returns an error leaves the block bitmap, nr_free_blocks
\* and the file's pointers and i_blocks as they were before the call.
C34_FailedWriteFrame ==
    (last.op = "write" /\ last.ret < 0) =>
        /\ block_bitmap = last.pre_fs.block_bitmap
        /\ nr_free_blocks = last.pre_fs.nr_free_blocks
        /\ inode_table[last.ino].i_block = last.pre_fs.inode_table[last.ino].i_block
        /\ inode_table[last.ino].i_blocks = last.pre_fs.inode_table[last.ino].i_blocks

\* Position p of file ino was written since the file's blocks were last freed.
WrittenAt(ino, p) == \E w \in written[ino] : w[1] <= p /\ p < w[2]

\* C35: every non-zero byte a read returns was written through that file
\* since its blocks were last freed.
C35_NoStaleBytes ==
    (last.op = "read" /\ last.ret > 0) =>
        \A k \in DOMAIN last.buf.nz :
            last.buf.nz[k] # 0 => WrittenAt(last.ino, last.ppos + k)

\* The resolver's answer g is a success that names block 0.
YieldsBlockZero(g) == g.ret = 0 /\ g.phys_block = 0

\* C36: no write returns the I/O error of an invalid physical block; a
\* successful resolve with create for a file, in the direct, the indirect or
\* the double-indirect range, never answers block 0; and
\* once a file has an inode block 0 is taken, by the root directory.
C36_NeverBlockZero ==
    /\ last.op = "write" => last.ret # -EIO
    /\ \A ino \in inode_bitmap \ {ROOT_INODE}, b \in {0, FirstIndirect, FirstDIndirect} :
          ~YieldsBlockZero(osfs_get_block(FS, ino, b, TRUE))
    /\ inode_bitmap # {ROOT_INODE} =>
          /\ 0 \in block_bitmap
          /\ inode_table[ROOT_INODE].i_blocks > 0
          /\ inode_table[ROOT_INODE].i_block[0] = 0

\* A write got a file its first block.
C36_Witness ==
    /\ last.op = "write"
    /\ last.ret > 0
    /\ GotFirstBlock(last.ino)

\* C37: under creates nr_free_inodes stays in 0..INODE_COUNT-1, and a create
\* finds nr_free_inodes = 0 exactly when no inode number is free.
C37_FreeInodesInRange ==
    /\ nr_free_inodes \in 0..(INODE_COUNT - 1)
    /\ last.op = "create" =>
          (last.pre_nr_free_inodes = 0
              <=> FirstClearBit(last.pre_inode_bitmap, 1, INODE_COUNT) = -1)

\* The index of the first byte of every line of the file.
LineStarts(file) ==
    {j \in 1..Len(file) : j = 1 \/ file[j - 1] = NEWLINE}

\* The line that starts at the j-th byte, without its newline.
LineAt(file, j) ==
    SubSeq(file, j, SetMin({k \in j..(Len(file) + 1) : k > Len(file) \/ file[k] = NEWLINE}) - 1)

\* The lines of the file, in file order.
RECURSIVE LinesFrom(_, _)
LinesFrom(file, starts) ==
    IF starts = {} THEN << >>
    ELSE <<LineAt(file, SetMin(starts))>> \o LinesFrom(file, starts \ {SetMin(starts)})

\* The receiver has taken the sender's messages so far, in order.
TakenInOrder ==
    /\ Len(receiver.got) <= Len(sender.sent)
    /\ \A k \in 1..Len(receiver.got) : receiver.got[k] = sender.sent[k]

\* C38: the sender has placed at most one message the receiver has not taken,
\* the receiver takes the sender's messages in order and none that was not
\* placed, and a receiver that has ended has taken the lines of the input
\* file, each once and in file order, and then the exit message.
C38_Handshake ==
    /\ Len(sender.sent) - Len(receiver.got) \in {0, 1}
    /\ TakenInOrder
    /\ receiver.pc = "done" =>
          receiver.got = LinesFrom(input_file, LineStarts(input_file)) \o <<ExitText>>

\* C39: both processes end.
C39_Termination == <>(sender.pc = "done" /\ receiver.pc = "done")

====
